---- MODULE Spec2Model ----
(***************************************************************************)
(* A model of the recipe-suggestion pipeline of grocy-recipe-assistant:    *)
(* backend/app/cache.py, backend/app/scoring.py, backend/app/inventory.py  *)
(* and backend/app/recipes.py.                                             *)
(*                                                                         *)
(* Python strings are sequences of one-character strings, so that lower(), *)
(* strip(), split(), replace(), the "in" substring test, sorted() and      *)
(* ",".join() are computed as the code computes them.  An absent dict key  *)
(* of an integer field is the value Absent (-1); an absent list is <<>>.   *)
(* Every external answer (Redis, Spoonacular, the LLM, the inventory       *)
(* table) is an input of the action that consumes it.                      *)
(***************************************************************************)
EXTENDS Integers, Sequences, FiniteSets, TLC

VARIABLES
    OPENAI_API_KEY,   \* recipes.py:39 / inventory.py:14: the configured key
    cache,            \* the Redis store of cache.py, one map per key prefix
    pc,               \* position of the running suggest request
    req,              \* arguments and locals of the running request
    recipes,          \* the local list `recipes` of suggest
    idx,              \* loop index of the enrichment and classification loops
    result,           \* what the last suggest call returned or raised
    runs,             \* number of suggest requests started
    trace,            \* observations of the running request (history)
    st                \* the stage-call harness: last two direct stage calls

vars == <<OPENAI_API_KEY, cache, pc, req, recipes, idx, result, runs, trace, st>>

-----------------------------------------------------------------------------
(* Bounds of the model *)

\* number of suggest requests in one behaviour
MaxRuns == 1
\* number of recipes one external search answer carries
MaxResults == 2

Absent == -1

-----------------------------------------------------------------------------
(* Python strings *)

\* the characters the model uses, in code-point order
Alphabet ==
    << " ", "&", "'", ",", "-", "0", "1", "2", "3", "4", "5", "6", "7", "8", "9",
       ":", "A", "B", "C", "D", "E", "F", "G", "H", "I", "J", "K", "L", "M", "N",
       "O", "P", "Q", "R", "S", "T", "U", "V", "W", "X", "Y", "Z", "[", "]", "_",
       "a", "b", "c", "d", "e", "f", "g", "h", "i", "j", "k", "l", "m", "n",
       "o", "p", "q", "r", "s", "t", "u", "v", "w", "x", "y", "z" >>

\* ord(c), as a position in Alphabet
OrdTable ==
    [c \in {Alphabet[k] : k \in 1..Len(Alphabet)} |->
        CHOOSE k \in 1..Len(Alphabet) : Alphabet[k] = c]

Ord(c) == OrdTable[c]

\* c.lower()
LowerTable ==
    [c \in DOMAIN OrdTable |->
        IF OrdTable[c] >= OrdTable["A"] /\ OrdTable[c] <= OrdTable["Z"]
        THEN Alphabet[OrdTable[c] + (OrdTable["a"] - OrdTable["A"])] ELSE c]

LowerChar(c) == LowerTable[c]

\* str.lower()
Lower(s) == [k \in 1..Len(s) |-> LowerChar(s[k])]

RECURSIVE LStrip(_)
LStrip(s) == IF s # <<>> /\ Head(s) = " " THEN LStrip(Tail(s)) ELSE s

RECURSIVE RStrip(_)
RStrip(s) ==
    IF s # <<>> /\ s[Len(s)] = " " THEN RStrip(SubSeq(s, 1, Len(s) - 1)) ELSE s

\* str.strip()
Strip(s) == RStrip(LStrip(s))

\* s.startswith(p)
StartsWith(s, p) == Len(p) <= Len(s) /\ SubSeq(s, 1, Len(p)) = p

\* p in s (substring test)
Contains(s, p) ==
    \E k \in 0..(Len(s) - Len(p)) : SubSeq(s, k + 1, k + Len(p)) = p

\* any(k in s for k in keywords)
ContainsAny(s, keywords) == \E k \in 1..Len(keywords) : Contains(s, keywords[k])

\* s.split(sep)[0]
RECURSIVE SplitFirst(_, _)
SplitFirst(s, sep) ==
    IF s = <<>> THEN <<>>
    ELSE IF StartsWith(s, sep) THEN <<>>
    ELSE <<Head(s)>> \o SplitFirst(Tail(s), sep)

\* s.replace(pat, "")
RECURSIVE Remove(_, _)
Remove(s, pat) ==
    IF s = <<>> THEN <<>>
    ELSE IF StartsWith(s, pat) THEN Remove(SubSeq(s, Len(pat) + 1, Len(s)), pat)
    ELSE <<Head(s)>> \o Remove(Tail(s), pat)

\* a < b for Python strings (code-point lexicographic)
RECURSIVE StrLess(_, _)
StrLess(a, b) ==
    IF b = <<>> THEN FALSE
    ELSE IF a = <<>> THEN TRUE
    ELSE IF Ord(Head(a)) # Ord(Head(b)) THEN Ord(Head(a)) < Ord(Head(b))
    ELSE StrLess(Tail(a), Tail(b))

RECURSIVE InsertSorted(_, _)
InsertSorted(x, s) ==
    IF s = <<>> THEN <<x>>
    ELSE IF StrLess(x, Head(s)) THEN <<x>> \o s
    ELSE <<Head(s)>> \o InsertSorted(x, Tail(s))

\* sorted(list of str)
RECURSIVE SortedStr(_)
SortedStr(s) ==
    IF s = <<>> THEN <<>> ELSE InsertSorted(s[Len(s)], SortedStr(SubSeq(s, 1, Len(s) - 1)))

\* sep.join(list of str)
RECURSIVE Join(_, _)
Join(sep, s) ==
    IF s = <<>> THEN <<>>
    ELSE IF Len(s) = 1 THEN s[1]
    ELSE s[1] \o sep \o Join(sep, Tail(s))

\* x in list
InList(x, s) == \E k \in 1..Len(s) : s[k] = x

\* the elements of a list
Elems(s) == {s[k] : k \in 1..Len(s)}

\* list[:n]
Take(s, n) == SubSeq(s, 1, IF Len(s) < n THEN Len(s) ELSE n)

\* [x for x in s if x in keep]
RECURSIVE FilterIn(_, _)
FilterIn(s, keep) ==
    IF s = <<>> THEN <<>>
    ELSE (IF Head(s) \in keep THEN <<Head(s)>> ELSE <<>>) \o FilterIn(Tail(s), keep)

\* the sequences without repetition over a set, of at most n elements
RECURSIVE SeqsUpTo(_, _)
SeqsUpTo(S, n) ==
    IF n = 0 THEN {<<>>}
    ELSE LET shorter == SeqsUpTo(S, n - 1)
         IN  shorter \cup {Append(q, x) : q \in {p \in shorter : Len(p) = n - 1},
                                          x \in S}

DistinctSeqsUpTo(S, n) ==
    {q \in SeqsUpTo(S, n) : \A a, b \in 1..Len(q) : a # b => q[a] # q[b]}

-----------------------------------------------------------------------------
(* cache.py *)

\* the key prefixes the pipeline writes under
CachePrefixes ==
    {"spoon:recipes", "spoon:recipe_details", "spoon:recipe_taste",
     "ingredient_combinations", "ai:ingredient_classification", "ai:recipe",
     "filtered_ingredients"}

NoEntries == [k \in {} |-> 0]

EmptyCache == [p \in CachePrefixes |-> NoEntries]

\* r.get(key) found a value
HasKey(c, prefix, key) == key \in DOMAIN c[prefix]

\* get_cache on a hit: json.loads of the stored json.dumps text, which gives a
\* JSON value back unchanged
Stored(c, prefix, key) == c[prefix][key]

\* set_cache: r.set(key, json.dumps(value), ex=ttl)
set_cache(c, prefix, key, value) ==
    [c EXCEPT ![prefix] =
        [k \in DOMAIN @ \cup {key} |-> IF k = key THEN value ELSE @[k]]]

-----------------------------------------------------------------------------
(* Data: recipes, taste profiles, user preferences *)

\* scoring.py:3
TASTE_DIMENSIONS ==
    <<"sweetness", "saltiness", "sourness", "bitterness", "savoriness", "fattiness">>

\* {} as a taste profile
NoTaste == [d \in {} |-> 0]

\* the neutral profile the generator attaches (recipes.py:1375-1382)
NeutralTaste == [d \in Elems(TASTE_DIMENSIONS) |-> 50]

\* one element of extendedIngredients; hasName = FALSE is an entry without the
\* "name" key
Ing(n) == [hasName |-> TRUE, name |-> n]
NamelessIng == [hasName |-> FALSE, name |-> <<>>]

\* ing.get("name", "")
NameOf(ing) == IF ing.hasName THEN ing.name ELSE <<>>

\* a recipe dict.  Keys the code tests with "in" carry a has* flag; integer
\* keys read with .get are Absent when missing; lists read with .get(..., [])
\* are <<>> when missing.
Recipe(id, ext, hasInstr, minutes, used, missed) ==
    [id |-> id,
     extendedIngredients |-> ext,
     hasInstructions |-> hasInstr,
     readyInMinutes |-> minutes,
     usedIngredientCount |-> used,
     missedIngredientCount |-> missed,
     usedIngredients |-> <<>>,
     missedIngredients |-> <<>>,
     hasTaste |-> FALSE,
     taste_profile |-> NoTaste,
     ai_generated |-> FALSE,
     hasIngredientsList |-> FALSE,
     ingredients_list |-> <<>>,
     classified_ingredients |-> <<>>,
     fit_score |-> Absent,
     score |-> Absent]

\* user preferences: effort_tolerance is "absent" (no key), "none" (null) or a
\* bucket name; dietary_restrictions is absent, or a dict with optional keys
Prefs(effort, hasTaste, taste, hasDietary, hasDiet, diet, hasIntol, intol) ==
    [effort_tolerance |-> effort,
     hasTaste |-> hasTaste,
     taste_profile |-> taste,
     hasDietary |-> hasDietary,
     dietary_restrictions |->
        [hasDiet |-> hasDiet, diet |-> diet,
         hasIntolerances |-> hasIntol, intolerances |-> intol]]

\* user_preferences == {}
EmptyPrefs == Prefs("absent", FALSE, NoTaste, FALSE, FALSE, <<>>, FALSE, <<>>)

\* bool(dietary_restrictions): a dict is truthy when it has a key
DietTruthy(p) ==
    p.hasDietary /\ (p.dietary_restrictions.hasDiet \/ p.dietary_restrictions.hasIntolerances)

-----------------------------------------------------------------------------
(* scoring.py *)

\* sub-scores are counted in units of 1/ScoreScale and the combined score in
\* units of 1/(10 * ScoreScale): exact for up to 6 distinct ingredient names
\* and for integer taste values
ScoreScale == 60 * 100

map_minutes_to_effort(minutes) ==
    IF minutes = Absent THEN "moderate"
    ELSE IF minutes <= 30 THEN "easy"
    ELSE IF minutes <= 60 THEN "moderate"
    ELSE "hard"

effort_levels == <<"easy", "moderate", "hard">>

EffortIndex(e) == CHOOSE k \in 1..Len(effort_levels) : effort_levels[k] = e

Abs(x) == IF x < 0 THEN 0 - x ELSE x

calculate_effort_score(recipe_effort, user_effort_preference) ==
    IF user_effort_preference = "none" THEN ScoreScale \div 2
    ELSE IF recipe_effort = user_effort_preference THEN ScoreScale
    ELSE IF /\ InList(recipe_effort, effort_levels)
            /\ InList(user_effort_preference, effort_levels)
            /\ Abs(EffortIndex(recipe_effort) - EffortIndex(user_effort_preference)) = 1
         THEN (ScoreScale * 6) \div 10
    ELSE ScoreScale \div 10

\* the dimensions present in both profiles
ComparableDims(recipe_taste, user_taste_pref) ==
    {d \in Elems(TASTE_DIMENSIONS) : d \in DOMAIN recipe_taste /\ d \in DOMAIN user_taste_pref}

RECURSIVE SumOver(_, _)
SumOver(S, f) ==
    IF S = {} THEN 0
    ELSE LET x == CHOOSE y \in S : TRUE IN f[x] + SumOver(S \ {x}, f)

calculate_flavor_score(recipe_taste, user_taste_pref) ==
    IF DOMAIN recipe_taste = {} \/ DOMAIN user_taste_pref = {} THEN ScoreScale \div 2
    ELSE LET dims == ComparableDims(recipe_taste, user_taste_pref)
             total_difference ==
                SumOver(dims, [d \in dims |-> Abs(recipe_taste[d] - user_taste_pref[d])])
             dimensions_counted == Cardinality(dims)
         IN  IF dimensions_counted = 0 THEN ScoreScale \div 2
             ELSE ScoreScale - (ScoreScale * total_difference) \div (dimensions_counted * 100)

\* ing["name"] raises KeyError on an entry without the key (scoring.py:58)
ScoreRaises(recipe) ==
    \E k \in 1..Len(recipe.extendedIngredients) : ~recipe.extendedIngredients[k].hasName

\* an inventory score that counts the ingredients that are not available
ShareOfMissing(recipe, available_ingredients) ==
    LET recipe_ingredients ==
            {Lower(recipe.extendedIngredients[k].name) :
                k \in 1..Len(recipe.extendedIngredients)}
    IN  IF recipe_ingredients = {} THEN 0
        ELSE (ScoreScale * Cardinality({n \in recipe_ingredients :
                                            ~InList(n, available_ingredients)}))
                \div Cardinality(recipe_ingredients)

\* scoring.py:57-61
inventory_score(recipe, available_ingredients) ==
    LET recipe_ingredients ==
            {Lower(recipe.extendedIngredients[k].name) :
                k \in 1..Len(recipe.extendedIngredients)}
        available_count ==
            Cardinality({n \in recipe_ingredients : InList(n, available_ingredients)})
    IN  IF recipe_ingredients = {} THEN 0
        ELSE (ScoreScale * available_count) \div Cardinality(recipe_ingredients)

\* scoring.py:63-67: the effort sub-score of score_recipe; a preferences dict
\* without the key reads as "moderate"
effort_score(recipe, user_preferences) ==
    LET recipe_effort == map_minutes_to_effort(recipe.readyInMinutes)
        user_effort_pref ==
            IF user_preferences.effort_tolerance = "absent" THEN "moderate"
            ELSE user_preferences.effort_tolerance
    IN  calculate_effort_score(recipe_effort, user_effort_pref)

\* scoring.py:69-72: the flavor sub-score of score_recipe
flavor_score(recipe, user_preferences) ==
    LET recipe_taste == IF recipe.hasTaste THEN recipe.taste_profile ELSE NoTaste
        user_taste_pref ==
            IF user_preferences.hasTaste THEN user_preferences.taste_profile ELSE NoTaste
    IN  calculate_flavor_score(recipe_taste, user_taste_pref)

score_recipe(recipe, available_ingredients, user_preferences) ==
    inventory_score(recipe, available_ingredients) * 4
        + effort_score(recipe, user_preferences) * 3
        + flavor_score(recipe, user_preferences) * 3

\* a sort that is not stable: an element goes before the elements of equal score
RECURSIVE InsertBeforeEqual(_, _)
InsertBeforeEqual(x, s) ==
    IF s = <<>> THEN <<x>>
    ELSE IF x.score >= Head(s).score THEN <<x>> \o s
    ELSE <<Head(s)>> \o InsertBeforeEqual(x, Tail(s))

\* sorted(recipes, key=score, reverse=True): Python's sort is stable, also
\* with reverse=True, so an element goes behind the elements of equal score
RECURSIVE InsertByScore(_, _)
InsertByScore(x, s) ==
    IF s = <<>> THEN <<x>>
    ELSE IF x.score > Head(s).score THEN <<x>> \o s
    ELSE <<Head(s)>> \o InsertByScore(x, Tail(s))

RECURSIVE SortByScore(_)
SortByScore(s) ==
    IF s = <<>> THEN <<>>
    ELSE InsertByScore(s[Len(s)], SortByScore(SubSeq(s, 1, Len(s) - 1)))

score_and_sort_recipes(rs, available_ingredients, user_preferences) ==
    SortByScore([k \in 1..Len(rs) |->
        [rs[k] EXCEPT !.score = score_recipe(rs[k], available_ingredients, user_preferences)]])

-----------------------------------------------------------------------------
(* recipes.py: the ingredient classifier's heuristic and the conversion *)

\* a credential check that takes every key for a real one
NeverUnavailable(apiKey) == FALSE

\* "dummy" in OPENAI_API_KEY or client is None (recipes.py:974); client is
\* None exactly when the key contains "dummy" (recipes.py:47-50)
AIUnavailable(apiKey) == Contains(apiKey, <<"d", "u", "m", "m", "y">>)

\* recipes.py:1134-1142
Simplify(clean_item) ==
    LET cut == IF Contains(clean_item, <<" ", "-", " ">>)
               THEN Strip(SplitFirst(clean_item, <<" ", "-", " ">>)) ELSE clean_item
    IN  Strip(Remove(Remove(Remove(Remove(Remove(cut,
            <<"c", "a", "m", "p", "b", "e", "l", "l", "'", "s">>), <<" ", "i", "n", " ", "w", "a", "t", "e", "r">>), <<" ", "i", "n", " ", "v", "e", "g", "e", "t", "a", "b", "l", "e", " ", "o", "i", "l">>),
            <<" ", "i", "n", " ", "t", "o", "m", "a", "t", "o", " ", "&", " ", "m", "e", "a", "t", " ", "s", "a", "u", "c", "e">>), <<" ", "i", "n", " ", "t", "o", "m", "a", "t", "o", " ", "s", "a", "u", "c", "e">>))

clean_inventory(user_inventory) ==
    [k \in 1..Len(user_inventory) |-> Strip(Lower(user_inventory[k]))]

\* recipes.py:1125-1145: the simplified items, without empties and repetitions
RECURSIVE simplified_inventory(_)
simplified_inventory(clean) ==
    IF clean = <<>> THEN <<>>
    ELSE LET before == simplified_inventory(SubSeq(clean, 1, Len(clean) - 1))
             simplified == Simplify(clean[Len(clean)])
         IN  IF simplified # <<>> /\ ~InList(simplified, before)
             THEN Append(before, simplified) ELSE before

\* recipes.py:1155-1165, in the dict's insertion order
core_ingredients ==
    << <<<<"t", "u", "n", "a">>, <<"c", "h", "u", "n", "k", " ", "l", "i", "g", "h", "t">>, <<"a", "l", "b", "a", "c", "o", "r", "e">>>>,
       <<<<"b", "e", "e", "f">>, <<"s", "t", "e", "a", "k">>, <<"s", "t", "e", "w">>, <<"g", "r", "o", "u", "n", "d", " ", "b", "e", "e", "f">>>>,
       <<<<"c", "h", "i", "c", "k", "e", "n">>, <<"p", "o", "u", "l", "t", "r", "y">>>>,
       <<<<"p", "a", "s", "t", "a">>, <<"s", "p", "a", "g", "h", "e", "t", "t", "i">>, <<"m", "a", "c", "a", "r", "o", "n", "i">>, <<"n", "o", "o", "d", "l", "e">>, <<"r", "a", "v", "i", "o", "l", "i">>, <<"s", "h", "e", "l", "l", "s">>>>,
       <<<<"t", "o", "m", "a", "t", "o">>, <<"t", "o", "m", "a", "t", "o", "e", "s">>, <<"t", "o", "m", "a", "t", "o", " ", "s", "a", "u", "c", "e">>>>,
       <<<<"c", "h", "e", "e", "s", "e">>, <<"c", "h", "e", "d", "d", "a", "r">>, <<"m", "o", "z", "z", "a", "r", "e", "l", "l", "a">>, <<"p", "a", "r", "m", "e", "s", "a", "n">>>>,
       <<<<"b", "e", "a", "n", "s">>, <<"g", "r", "e", "e", "n", " ", "b", "e", "a", "n", "s">>, <<"k", "i", "d", "n", "e", "y", " ", "b", "e", "a", "n", "s">>>>,
       <<<<"s", "o", "u", "p">>, <<"s", "t", "e", "w">>, <<"c", "h", "o", "w", "d", "e", "r">>>>,
       <<<<"g", "r", "a", "v", "y">>, <<"s", "a", "u", "c", "e">>>> >>

\* recipes.py:1167-1215: the layered match of one cleaned recipe ingredient
InInventory(ingredient, clean, simplified) ==
    LET both == clean \o simplified
        exact == InList(ingredient, both)
        substring ==
            \E k \in 1..Len(both) :
                Contains(ingredient, both[k]) \/ Contains(both[k], ingredient)
        core ==
            \E c \in 1..Len(core_ingredients) :
                /\ ContainsAny(ingredient, core_ingredients[c])
                /\ \E k \in 1..Len(both) : ContainsAny(both[k], core_ingredients[c])
    IN  exact \/ substring \/ core

Max(a, b) == IF a > b THEN a ELSE b
Min(a, b) == IF a < b THEN a ELSE b

\* recipes.py:1217-1226: the band of position i (0-based); confidence in tenths
Band(i, total) ==
    LET essential_count == Max(1, total \div 3)
        important_count == Max(1, total \div 3)
    IN  IF i < essential_count THEN [category |-> "Essential", confidence |-> 8]
        ELSE IF i < essential_count + important_count
             THEN [category |-> "Important", confidence |-> 7]
        ELSE [category |-> "Optional", confidence |-> 6]

\* a classification of the ingredients that were found in the inventory only
ClassifyMatchedOnly(ingredient_list, user_inventory) ==
    LET clean == clean_inventory(user_inventory)
        simplified == simplified_inventory(clean)
        Matched(name) == InInventory(Strip(Lower(name)), clean, simplified)
        kept == SelectSeq(ingredient_list, Matched)
    IN  [k \in 1..Len(kept) |->
            [ingredient |-> kept[k], category |-> "Essential", in_inventory |-> TRUE,
             confidence |-> 8]]

_create_simple_ingredient_classification(ingredient_list, user_inventory) ==
    LET clean == clean_inventory(user_inventory)
        simplified == simplified_inventory(clean)
    IN  [k \in 1..Len(ingredient_list) |->
            [ingredient |-> ingredient_list[k],
             category |-> Band(k - 1, Len(ingredient_list)).category,
             in_inventory |-> InInventory(Strip(Lower(ingredient_list[k])), clean, simplified),
             confidence |-> Band(k - 1, Len(ingredient_list)).confidence]]

\* [c["ingredient"].lower() for c in classified if c["in_inventory"] == flag]
RECURSIVE NamesWithFlag(_, _)
NamesWithFlag(classified, flag) ==
    IF classified = <<>> THEN <<>>
    ELSE (IF Head(classified).in_inventory = flag
          THEN <<Lower(Head(classified).ingredient)>> ELSE <<>>)
         \o NamesWithFlag(Tail(classified), flag)

\* recipes.py:819-874; the amount and unit of the list entries are left out
convert_classified_to_used_missed(recipe, available_ingredients) ==
    LET classified == recipe.classified_ingredients
        used_ingredients == NamesWithFlag(classified, TRUE)
        missed_ingredients == NamesWithFlag(classified, FALSE)
    IN  IF classified = <<>> THEN recipe
        ELSE [recipe EXCEPT !.usedIngredientCount = Len(used_ingredients),
                            !.missedIngredientCount = Len(missed_ingredients),
                            !.usedIngredients = used_ingredients,
                            !.missedIngredients = missed_ingredients]

\* [ing.get("name", "").lower() for ing in recipe.get("extendedIngredients", [])]
IngredientNames(recipe) ==
    [k \in 1..Len(recipe.extendedIngredients) |->
        Lower(NameOf(recipe.extendedIngredients[k]))]

-----------------------------------------------------------------------------
(* recipes.py: the cached stage functions.  Each operator takes the cache and
   the answers `io` of the outside world to this one call:
     io.getFault, io.setFault   the Redis client raises on get / on set
     io.resp                    the HTTP or LLM answer
   and gives [raised, ret, cache, calls]: whether the call raised, its return
   value, the cache after it and the number of HTTP/LLM requests it issued. *)

Outcome(raised, ret, c, calls) ==
    [raised |-> raised, ret |-> ret, cache |-> c, calls |-> calls]

\* `if max_ready_time:` -- None and 0 add no qualifier
TimeQualifier(max_ready_time) ==
    IF max_ready_time = Absent \/ max_ready_time = 0 THEN Absent ELSE max_ready_time

NoDiet == [hasDiet |-> FALSE, diet |-> <<>>, hasIntolerances |-> FALSE, intolerances |-> <<>>]

\* recipes.py:164-168: ":diet" and "_".join(f"{k}:{v}" for k, v in sorted(items));
\* "diet" sorts before "intolerances", a str is formatted as it is and a list
\* of str as its repr, ['a', 'b']
SearchDietQualifier(prefs) ==
    LET d == prefs.dietary_restrictions
        quoted == [k \in 1..Len(d.intolerances) |-> <<"'">> \o d.intolerances[k] \o <<"'">>]
        parts ==
            (IF d.hasDiet THEN <<<<"d", "i", "e", "t", ":">> \o d.diet>> ELSE <<>>)
            \o (IF d.hasIntolerances
                THEN <<<<"i", "n", "t", "o", "l", "e", "r", "a", "n", "c", "e", "s", ":", "[">> \o Join(<<",", " ">>, quoted) \o <<"]">>>> ELSE <<>>)
    IN  IF DietTruthy(prefs) THEN <<":", "d", "i", "e", "t">> \o Join(<<"_">>, parts) ELSE <<>>

\* a search key without the diet qualifier
SearchKeyWithoutDiet(ingredients, max_ready_time, prefs) ==
    <<Join(<<",">>, SortedStr(ingredients)), TimeQualifier(max_ready_time), <<>>>>

\* recipes.py:161-168
SearchKey(ingredients, max_ready_time, prefs) ==
    <<Join(<<",">>, SortedStr(ingredients)), TimeQualifier(max_ready_time),
      SearchDietQualifier(prefs)>>

\* a group search that lets a failed request raise
FetchRaisingOnFailure(c, ingredients, number, max_ready_time, prefs, io) ==
    IF io.resp.kind # "ok" THEN Outcome(TRUE, <<>>, c, 1)
    ELSE Outcome(FALSE, io.resp.results, c, 1)

\* recipes.py:145-248; prefs carries the dietary_restrictions argument
_fetch_recipes_for_ingredient_group(c, ingredients, number, max_ready_time, prefs, io) ==
    LET cache_key == SearchKey(ingredients, max_ready_time, prefs)
        hit == HasKey(c, "spoon:recipes", cache_key)
        results == io.resp.results
    IN  IF io.getFault THEN Outcome(TRUE, <<>>, c, 0)
        ELSE IF hit /\ Stored(c, "spoon:recipes", cache_key) # <<>>
             THEN Outcome(FALSE, Stored(c, "spoon:recipes", cache_key), c, 0)
        ELSE IF io.resp.kind # "ok" THEN Outcome(FALSE, <<>>, c, 1)
        ELSE IF results = <<>> THEN Outcome(FALSE, <<>>, c, 1)
        ELSE IF io.setFault THEN Outcome(FALSE, <<>>, c, 1)
        ELSE Outcome(FALSE, results, set_cache(c, "spoon:recipes", cache_key, results), 1)

\* the JSON object of the information endpoint; empty is {}
Details(ext, hasInstr, minutes) ==
    [empty |-> FALSE, extendedIngredients |-> ext, hasInstructions |-> hasInstr,
     readyInMinutes |-> minutes]
EmptyDetails ==
    [empty |-> TRUE, extendedIngredients |-> <<>>, hasInstructions |-> FALSE,
     readyInMinutes |-> Absent]

\* recipes.py:877-910; ret.isNone is the return value None
fetch_recipe_details(c, recipe_id, io) ==
    LET cache_key == recipe_id
        hit == HasKey(c, "spoon:recipe_details", cache_key)
        none == [isNone |-> TRUE, details |-> EmptyDetails]
    IN  IF io.getFault THEN Outcome(TRUE, none, c, 0)
        ELSE IF hit /\ ~Stored(c, "spoon:recipe_details", cache_key).empty
             THEN Outcome(FALSE,
                          [isNone |-> FALSE,
                           details |-> Stored(c, "spoon:recipe_details", cache_key)], c, 0)
        ELSE IF io.resp.kind # "ok" THEN Outcome(FALSE, none, c, 1)
        ELSE IF io.setFault THEN Outcome(FALSE, none, c, 1)
        ELSE Outcome(FALSE, [isNone |-> FALSE, details |-> io.resp.details],
                     set_cache(c, "spoon:recipe_details", cache_key, io.resp.details), 1)

\* a taste fetcher that never looks into the cache
TasteWithoutCacheRead(c, recipe_id, io) ==
    IF io.getFault THEN Outcome(TRUE, NoTaste, c, 0)
    ELSE IF io.resp.kind # "ok" THEN Outcome(FALSE, NoTaste, c, 1)
    ELSE IF io.setFault THEN Outcome(FALSE, NoTaste, c, 1)
    ELSE Outcome(FALSE, io.resp.taste,
                 set_cache(c, "spoon:recipe_taste", recipe_id, io.resp.taste), 1)

\* recipes.py:913-946
fetch_recipe_taste_profile(c, recipe_id, io) ==
    LET cache_key == recipe_id
        hit == HasKey(c, "spoon:recipe_taste", cache_key)
    IN  IF io.getFault THEN Outcome(TRUE, NoTaste, c, 0)
        ELSE IF hit /\ DOMAIN Stored(c, "spoon:recipe_taste", cache_key) # {}
             THEN Outcome(FALSE, Stored(c, "spoon:recipe_taste", cache_key), c, 0)
        ELSE IF io.resp.kind # "ok" THEN Outcome(FALSE, NoTaste, c, 1)
        ELSE IF io.setFault THEN Outcome(FALSE, NoTaste, c, 1)
        ELSE Outcome(FALSE, io.resp.taste,
                     set_cache(c, "spoon:recipe_taste", cache_key, io.resp.taste), 1)

\* hash(tuple(sorted(user_inventory))): Python's 64-bit hash of the sorted
\* tuple, taken to be free of collisions on the inventories of the model
InventoryHash(user_inventory) == <<"hash", SortedStr(user_inventory)>>

\* a classification key of the recipe id alone
KeyOfRecipeOnly(recipe, user_inventory) == <<recipe.id, InventoryHash(<<>>)>>

\* recipes.py:963-965
ClassificationKey(recipe, user_inventory) == <<recipe.id, InventoryHash(user_inventory)>>

\* recipes.py:1049-1060: the items kept of a parsed answer, coerced
RECURSIVE ValidItems(_)
ValidItems(items) ==
    IF items = <<>> THEN <<>>
    ELSE (IF Head(items).valid
          THEN <<[ingredient |-> Head(items).ingredient,
                  category |-> Head(items).category,
                  in_inventory |-> Head(items).in_inventory,
                  confidence |-> Head(items).confidence]>>
          ELSE <<>>) \o ValidItems(Tail(items))

\* recipes.py:949-1087.  io.resp.kind is what the LLM call gives:
\*   "exc"        the client raises
\*   "signature"  the text carries the bare "ingredient" signature (1012-1021)
\*   "garbage"    no JSON list can be parsed or extracted from the text
\*   "list"       a JSON list, io.resp.items (parsed directly or extracted)
classify_ingredients_with_ai(c, apiKey, recipe, user_inventory, recipe_ingredients_list, io) ==
    LET cache_key == ClassificationKey(recipe, user_inventory)
        hit == HasKey(c, "ai:ingredient_classification", cache_key)
        fallback ==
            _create_simple_ingredient_classification(recipe_ingredients_list, user_inventory)
        valid_items == ValidItems(io.resp.items)
    IN  IF io.getFault THEN Outcome(TRUE, <<>>, c, 0)
        ELSE IF hit /\ Stored(c, "ai:ingredient_classification", cache_key) # <<>>
             THEN Outcome(FALSE, Stored(c, "ai:ingredient_classification", cache_key), c, 0)
        ELSE IF AIUnavailable(apiKey) THEN Outcome(FALSE, fallback, c, 0)
        ELSE IF io.resp.kind # "list" THEN Outcome(FALSE, fallback, c, 1)
        ELSE IF valid_items = <<>> THEN Outcome(FALSE, fallback, c, 1)
        ELSE IF io.setFault THEN Outcome(FALSE, fallback, c, 1)
        ELSE Outcome(FALSE, valid_items,
                     set_cache(c, "ai:ingredient_classification", cache_key, valid_items), 1)

\* recipes.py:1261-1269: diet_str, the intolerances sorted
GeneratorDietQualifier(prefs) ==
    LET d == prefs.dietary_restrictions
    IN  IF ~DietTruthy(prefs) THEN NoDiet
        ELSE [hasDiet |-> d.hasDiet,
              diet |-> IF d.hasDiet THEN d.diet ELSE <<>>,
              hasIntolerances |-> d.hasIntolerances /\ d.intolerances # <<>>,
              intolerances |->
                IF d.hasIntolerances THEN SortedStr(d.intolerances) ELSE <<>>]

\* recipes.py:1272-1276
GeneratorKey(available_ingredients, max_ready_time, prefs) ==
    <<Join(<<",">>, SortedStr(available_ingredients)), TimeQualifier(max_ready_time),
      GeneratorDietQualifier(prefs)>>

\* recipes.py:1364-1386: what the generator makes of a parsed, complete answer
AcceptedAIRecipe(parsed) ==
    [parsed EXCEPT !.ai_generated = TRUE,
                   !.hasIngredientsList = TRUE,
                   !.ingredients_list = IngredientNames(parsed),
                   !.hasTaste = TRUE,
                   !.taste_profile = NeutralTaste,
                   !.usedIngredientCount = Len(parsed.extendedIngredients),
                   !.missedIngredientCount = 0]

\* recipes.py:1402-1426: the recipe built by hand from title and instructions
ManualAIRecipe(unique_id, available_ingredients) ==
    LET ext == [k \in 1..Min(5, Len(available_ingredients)) |-> Ing(available_ingredients[k])]
        base == Recipe(unique_id, ext, TRUE, 30, Absent, Absent)
    IN  [base EXCEPT !.ai_generated = TRUE,
                     !.hasTaste = TRUE,
                     !.taste_profile = NeutralTaste,
                     !.hasIngredientsList = TRUE,
                     !.ingredients_list = IngredientNames(base)]

NoRecipe == Recipe(0, <<>>, FALSE, Absent, Absent, Absent)

\* a generator that answers by hand without looking at the credential
GenerateWithoutCredential(c, apiKey, available_ingredients, prefs, max_ready_time, unique_id, io) ==
    Outcome(FALSE,
            [isNone |-> FALSE, recipe |-> ManualAIRecipe(unique_id, available_ingredients)],
            c, 1)

\* recipes.py:1243-1437; ret.isNone is the return value None.  unique_id stands
\* for the "ai-recipe-<timestamp>-<hash>" id.  io.resp.kind:
\*   "exc"      the client raises
\*   "nojson"   the text has no {...} block, or one that neither parses nor
\*              shows a title and instructions
\*   "partial"  a JSON object without all the required fields
\*   "recipe"   a JSON object with the required fields, io.resp.recipe
\*   "manual"   a block that does not parse but shows title and instructions
generate_ai_recipe_suggestion(c, apiKey, available_ingredients, prefs, max_ready_time, unique_id, io) ==
    LET cache_key == GeneratorKey(available_ingredients, max_ready_time, prefs)
        hit == HasKey(c, "ai:recipe", cache_key)
        none == [isNone |-> TRUE, recipe |-> NoRecipe]
        made ==
            IF io.resp.kind = "recipe" THEN AcceptedAIRecipe(io.resp.recipe)
            ELSE ManualAIRecipe(unique_id, available_ingredients)
    IN  IF AIUnavailable(apiKey) THEN Outcome(FALSE, none, c, 0)
        ELSE IF io.getFault THEN Outcome(TRUE, none, c, 0)
        ELSE IF hit
             THEN Outcome(FALSE, [isNone |-> FALSE, recipe |-> Stored(c, "ai:recipe", cache_key)],
                          c, 0)
        ELSE IF io.resp.kind \notin {"recipe", "manual"} THEN Outcome(FALSE, none, c, 1)
        ELSE IF io.setFault THEN Outcome(FALSE, none, c, 1)
        ELSE Outcome(FALSE, [isNone |-> FALSE, recipe |-> made],
                     set_cache(c, "ai:recipe", cache_key, made), 1)

-----------------------------------------------------------------------------
(* recipes.py: the ingredient combination generator *)

\* [ing for ing in ingredients if any(k in ing.lower() for k in keywords)]
RECURSIVE WithKeyword(_, _)
WithKeyword(ingredients, keywords) ==
    IF ingredients = <<>> THEN <<>>
    ELSE (IF ContainsAny(Lower(Head(ingredients)), keywords)
          THEN <<Head(ingredients)>> ELSE <<>>)
         \o WithKeyword(Tail(ingredients), keywords)

\* [x for x in s if x not in exclude]
RECURSIVE NotIn(_, _)
NotIn(s, exclude) ==
    IF s = <<>> THEN <<>>
    ELSE (IF InList(Head(s), exclude) THEN <<>> ELSE <<Head(s)>>) \o NotIn(Tail(s), exclude)

\* recipes.py:389-393
protein_sources ==
    <<<<"c", "h", "i", "c", "k", "e", "n">>, <<"b", "e", "e", "f">>, <<"p", "o", "r", "k">>, <<"t", "u", "n", "a">>, <<"f", "i", "s", "h">>, <<"t", "o", "f", "u">>, <<"b", "e", "a", "n", "s">>,
      <<"l", "e", "n", "t", "i", "l", "s">>, <<"e", "g", "g", "s">>>>
starches ==
    <<<<"p", "a", "s", "t", "a">>, <<"r", "i", "c", "e">>, <<"p", "o", "t", "a", "t", "o">>, <<"b", "r", "e", "a", "d">>, <<"n", "o", "o", "d", "l", "e">>, <<"m", "a", "c", "a", "r", "o", "n", "i">>, <<"s", "p", "a", "g", "h", "e", "t", "t", "i">>>>
vegetables ==
    <<<<"t", "o", "m", "a", "t", "o">>, <<"o", "n", "i", "o", "n">>, <<"c", "a", "r", "r", "o", "t">>, <<"b", "r", "o", "c", "c", "o", "l", "i">>, <<"s", "p", "i", "n", "a", "c", "h">>, <<"l", "e", "t", "t", "u", "c", "e">>,
      <<"p", "e", "p", "p", "e", "r">>, <<"g", "r", "e", "e", "n", " ", "b", "e", "a", "n", "s">>>>
condiments ==
    <<<<"s", "a", "u", "c", "e">>, <<"b", "b", "q">>, <<"g", "r", "a", "v", "y">>, <<"o", "i", "l">>, <<"v", "i", "n", "e", "g", "a", "r">>, <<"m", "a", "y", "o", "n", "n", "a", "i", "s", "e">>, <<"m", "u", "s", "t", "a", "r", "d">>>>

\* recipes.py:411-432
PastaCombos(ingredients) ==
    LET pasta_items ==
            WithKeyword(ingredients, <<<<"p", "a", "s", "t", "a">>, <<"s", "p", "a", "g", "h", "e", "t", "t", "i">>, <<"m", "a", "c", "a", "r", "o", "n", "i">>, <<"n", "o", "o", "d", "l", "e">>>>)
        tomato_items == WithKeyword(ingredients, <<<<"t", "o", "m", "a", "t", "o">>, <<"s", "a", "u", "c", "e">>>>)
        cheese_items == WithKeyword(ingredients, <<<<"c", "h", "e", "e", "s", "e">>>>)
        protein_items == WithKeyword(ingredients, protein_sources)
        c1 == Take(pasta_items, 1) \o Take(tomato_items, 1) \o Take(cheese_items, 1)
        pasta_combo == IF Len(c1) < 4 THEN c1 \o Take(protein_items, 1) ELSE c1
    IN  IF pasta_items # <<>> /\ Len(pasta_combo) >= 2 THEN <<pasta_combo>> ELSE <<>>

\* recipes.py:437-456: the meal built around one protein
MealCombo(ingredients, protein) ==
    LET m1 == <<protein>>
        m2 == m1 \o Take(NotIn(WithKeyword(ingredients, starches), m1), 1)
        m3 == m2 \o Take(NotIn(WithKeyword(ingredients, vegetables), m2), 1)
        m4 == IF Len(m3) < 4
              THEN m3 \o Take(NotIn(WithKeyword(ingredients, condiments), m3), 1)
              ELSE m3
    IN  IF Len(m4) >= 2 THEN <<m4>> ELSE <<>>

RECURSIVE MealCombos(_, _)
MealCombos(ingredients, proteins) ==
    IF proteins = <<>> THEN <<>>
    ELSE MealCombo(ingredients, Head(proteins)) \o MealCombos(ingredients, Tail(proteins))

\* recipes.py:458-474
SoupCombos(ingredients) ==
    LET soup_items == WithKeyword(ingredients, <<<<"s", "o", "u", "p">>>>)
        soup_combo0 == Take(soup_items, 1)
        soup_additions ==
            NotIn(WithKeyword(ingredients,
                    <<<<"b", "e", "a", "n", "s">>, <<"v", "e", "g", "e", "t", "a", "b", "l", "e">>, <<"c", "a", "r", "r", "o", "t">>, <<"o", "n", "i", "o", "n">>, <<"c", "h", "i", "c", "k", "e", "n">>, <<"b", "e", "e", "f">>>>),
                  soup_combo0)
        soup_combo == soup_combo0 \o Take(soup_additions, 2)
    IN  IF soup_items # <<>> /\ Len(soup_combo) >= 2 THEN <<soup_combo>> ELSE <<>>

\* recipes.py:482-502: the combination built around one meal kit
KitCombo(ingredients, kit) ==
    LET kit_lower == Lower(kit)
        complements ==
            IF Contains(kit_lower, <<"t", "a", "c", "o">>)
            THEN WithKeyword(ingredients, <<<<"c", "h", "e", "e", "s", "e">>, <<"s", "a", "l", "s", "a">>, <<"t", "o", "m", "a", "t", "o">>, <<"l", "e", "t", "t", "u", "c", "e">>>>)
            ELSE IF Contains(kit_lower, <<"p", "a", "s", "t", "a">>) \/ Contains(kit_lower, <<"s", "p", "a", "g", "h", "e", "t", "t", "i">>)
            THEN WithKeyword(ingredients, <<<<"c", "h", "e", "e", "s", "e">>, <<"t", "o", "m", "a", "t", "o">>, <<"b", "e", "e", "f">>, <<"s", "a", "u", "c", "e">>>>)
            ELSE IF Contains(kit_lower, <<"r", "i", "c", "e">>)
            THEN WithKeyword(ingredients, <<<<"v", "e", "g", "e", "t", "a", "b", "l", "e">>, <<"c", "h", "i", "c", "k", "e", "n">>, <<"b", "e", "e", "f">>, <<"s", "o", "y">>>>)
            ELSE IF Contains(kit_lower, <<"p", "o", "t", "a", "t", "o">>)
            THEN WithKeyword(ingredients, <<<<"c", "h", "e", "e", "s", "e">>, <<"c", "r", "e", "a", "m">>, <<"b", "u", "t", "t", "e", "r">>, <<"b", "a", "c", "o", "n">>>>)
            ELSE <<>>
        kit_combo == <<kit>> \o Take(complements, 2)
    IN  IF Len(kit_combo) >= 2 THEN <<kit_combo>> ELSE <<>>

RECURSIVE KitCombos(_, _)
KitCombos(ingredients, kits) ==
    IF kits = <<>> THEN <<>>
    ELSE KitCombo(ingredients, Head(kits)) \o KitCombos(ingredients, Tail(kits))

\* recipes.py:513-528: the extra combination of one ingredient no combination has
ExtraCombo(ingredients, ing) ==
    LET ing_lower == Lower(ing)
        companions ==
            IF ContainsAny(ing_lower, protein_sources)
            THEN WithKeyword(ingredients, starches \o vegetables)
            ELSE IF ContainsAny(ing_lower, starches)
            THEN WithKeyword(ingredients, protein_sources \o condiments)
            ELSE NotIn(ingredients, <<ing>>)
    IN  IF companions # <<>> THEN <<<<ing>> \o Take(companions, 2)>> ELSE <<>>

RECURSIVE ExtraCombos(_, _)
ExtraCombos(ingredients, missing) ==
    IF missing = <<>> THEN <<>>
    ELSE ExtraCombo(ingredients, Head(missing)) \o ExtraCombos(ingredients, Tail(missing))

\* the names of all the combinations
RECURSIVE AllIncluded(_)
AllIncluded(combinations) ==
    IF combinations = <<>> THEN {}
    ELSE Elems(Head(combinations)) \cup AllIncluded(Tail(combinations))

\* recipes.py:530-537: the first combination of every set of members
RECURSIVE UniqueCombinations(_, _)
UniqueCombinations(combinations, seen) ==
    IF combinations = <<>> THEN <<>>
    ELSE IF Elems(Head(combinations)) \in seen
         THEN UniqueCombinations(Tail(combinations), seen)
    ELSE <<Head(combinations)>>
         \o UniqueCombinations(Tail(combinations), seen \cup {Elems(Head(combinations))})

\* recipes.py:378
max_combinations(ingredients) == Min(8, Max(4, Len(ingredients) \div 2))

\* recipes.py:366-540
_create_culinary_ingredient_combinations(ingredients) ==
    LET whole == IF Len(ingredients) <= 6 THEN <<ingredients>> ELSE <<>>
        protein_items == WithKeyword(ingredients, protein_sources)
        meal_kits ==
            WithKeyword(ingredients, <<<<"k", "i", "t">>, <<"m", "i", "x">>, <<"h", "e", "l", "p", "e", "r">>, <<"d", "i", "n", "n", "e", "r">>, <<"m", "e", "a", "l">>>>)
        combinations ==
            whole \o PastaCombos(ingredients)
                  \o MealCombos(ingredients, Take(protein_items, 2))
                  \o SoupCombos(ingredients)
                  \o KitCombos(ingredients, meal_kits)
        included == AllIncluded(combinations)
        missing_ingredients == FilterIn(ingredients, Elems(ingredients) \ included)
        all == combinations \o ExtraCombos(ingredients, missing_ingredients)
    IN  Take(UniqueCombinations(all, {}), max_combinations(ingredients))

\* recipes.py:337-346: the groups of a parsed answer that keep two known names
RECURSIVE ValidGroups(_, _)
ValidGroups(groups, ingredients) ==
    IF groups = <<>> THEN <<>>
    ELSE LET valid_group == FilterIn(Head(groups), Elems(ingredients))
         IN  (IF Len(Head(groups)) >= 2 /\ Len(valid_group) >= 2
              THEN <<valid_group>> ELSE <<>>)
             \o ValidGroups(Tail(groups), ingredients)

\* recipes.py:251-363.  io.resp.kind is what the LLM call gives:
\*   "exc"      the client raises
\*   "garbage"  no JSON list of lists can be parsed or extracted
\*   "groups"   a non-empty JSON list of lists of names, io.resp.groups
get_meaningful_ingredient_combinations(c, apiKey, ingredients, io) ==
    LET cache_key == Join(<<",">>, SortedStr(ingredients))
        hit == HasKey(c, "ingredient_combinations", cache_key)
        valid_groups0 == ValidGroups(io.resp.groups, ingredients)
        valid_groups ==
            IF Len(ingredients) <= 8 THEN Append(valid_groups0, ingredients)
            ELSE valid_groups0
        ai == ~AIUnavailable(apiKey)
        aiAnswers == ai /\ io.resp.kind = "groups" /\ valid_groups0 # <<>>
        heuristic == _create_culinary_ingredient_combinations(ingredients)
        calls == IF ai THEN 1 ELSE 0
    IN  IF io.getFault THEN Outcome(TRUE, <<>>, c, 0)
        ELSE IF hit /\ Stored(c, "ingredient_combinations", cache_key) # <<>>
             THEN Outcome(FALSE, Stored(c, "ingredient_combinations", cache_key), c, 0)
        ELSE IF aiAnswers /\ ~io.setFault
             THEN Outcome(FALSE, valid_groups,
                          set_cache(c, "ingredient_combinations", cache_key, valid_groups), calls)
        ELSE IF io.setFault THEN Outcome(TRUE, <<>>, c, calls)
        ELSE Outcome(FALSE, heuristic,
                     set_cache(c, "ingredient_combinations", cache_key, heuristic), calls)

-----------------------------------------------------------------------------
(* inventory.py: the food filter and the inventory provider *)

\* inventory.py:272-277
non_food_keywords ==
    <<<<"d", "e", "t", "e", "r", "g", "e", "n", "t">>, <<"s", "o", "a", "p">>, <<"c", "l", "e", "a", "n", "e", "r">>, <<"t", "o", "i", "l", "e", "t">>, <<"p", "a", "p", "e", "r">>, <<"t", "o", "w", "e", "l">>, <<"n", "a", "p", "k", "i", "n">>,
      <<"p", "l", "a", "t", "e">>, <<"c", "u", "p">>, <<"f", "o", "r", "k">>, <<"s", "p", "o", "o", "n">>, <<"k", "n", "i", "f", "e">>, <<"d", "i", "s", "h">>, <<"s", "p", "o", "n", "g", "e">>, <<"t", "r", "a", "s", "h">>,
      <<"b", "a", "g">>, <<"c", "o", "n", "t", "a", "i", "n", "e", "r">>, <<"b", "a", "t", "t", "e", "r", "y">>, <<"b", "u", "l", "b">>, <<"l", "i", "g", "h", "t">>, <<"p", "e", "n">>, <<"p", "e", "n", "c", "i", "l">>,
      <<"m", "a", "r", "k", "e", "r">>, <<"t", "a", "p", "e">>, <<"g", "l", "u", "e">>, <<"s", "c", "i", "s", "s", "o", "r", "s">>, <<"t", "o", "o", "l">>, <<"w", "r", "e", "n", "c", "h">>, <<"s", "c", "r", "e", "w", "d", "r", "i", "v", "e", "r">>>>

\* inventory.py:280-293
RECURSIVE cleaned_items(_)
cleaned_items(item_names) ==
    IF item_names = <<>> THEN <<>>
    ELSE LET before == cleaned_items(SubSeq(item_names, 1, Len(item_names) - 1))
             name == item_names[Len(item_names)]
             lower == Lower(name)
             clean_name ==
                IF Contains(lower, <<" ", "-", " ">>) THEN Strip(SplitFirst(lower, <<" ", "-", " ">>)) ELSE lower
         IN  IF ContainsAny(lower, non_food_keywords) THEN before
             ELSE IF clean_name # <<>> /\ ~InList(clean_name, before)
                  THEN Append(before, clean_name)
             ELSE before

\* inventory.py:259-300
_heuristic_food_filtering(item_names, max_ingredients) ==
    Take(cleaned_items(item_names), max_ingredients)

\* inventory.py:164-256.  io.resp.kind is what the LLM call gives:
\*   "exc"      the client raises
\*   "garbage"  json.loads fails on the text
\*   "notlist"  the text is JSON, but no list
\*   "list"     a JSON list of names, io.resp.names
filter_valid_food_ingredients(c, apiKey, inventory_items, max_ingredients, io) ==
    LET item_names == inventory_items
        cache_key == Join(<<",">>, SortedStr(item_names))
        hit == HasKey(c, "filtered_ingredients", cache_key)
        heuristic == _heuristic_food_filtering(item_names, max_ingredients)
        filtered == Take(io.resp.names, max_ingredients)
    IN  IF inventory_items = <<>> THEN Outcome(FALSE, <<>>, c, 0)
        ELSE IF io.getFault THEN Outcome(TRUE, <<>>, c, 0)
        ELSE IF hit /\ Stored(c, "filtered_ingredients", cache_key) # <<>>
             THEN Outcome(FALSE, Take(Stored(c, "filtered_ingredients", cache_key),
                                       max_ingredients), c, 0)
        ELSE IF AIUnavailable(apiKey) THEN Outcome(FALSE, heuristic, c, 0)
        ELSE IF io.resp.kind # "list" THEN Outcome(FALSE, heuristic, c, 1)
        ELSE IF io.setFault THEN Outcome(FALSE, heuristic, c, 1)
        ELSE Outcome(FALSE, filtered,
                     set_cache(c, "filtered_ingredients", cache_key, filtered), 1)

\* inventory.py:303-337; rows are the names of the inventory table with
\* amount > 0, dbFault a failing database call
get_inventory_ingredient_names(c, apiKey, rows, dbFault, use_ai_filtering, max_ingredients, io) ==
    LET all_items == [k \in 1..Len(rows) |-> Lower(rows[k])]
        filtered == filter_valid_food_ingredients(c, apiKey, all_items, max_ingredients, io)
    IN  IF dbFault THEN Outcome(FALSE, <<>>, c, 0)
        ELSE IF use_ai_filtering /\ all_items # <<>>
             THEN (IF filtered.raised THEN Outcome(FALSE, <<>>, c, 0) ELSE filtered)
        ELSE Outcome(FALSE, Take(all_items, max_ingredients), c, 0)

-----------------------------------------------------------------------------
(* The outside world: the answers the pipeline can be given *)

\* the Redis client on the get and on the set of one stage call
FaultModes ==
    {[getFault |-> FALSE, setFault |-> FALSE],
     [getFault |-> TRUE, setFault |-> FALSE],
     [getFault |-> FALSE, setFault |-> TRUE]}

IO(f, resp) == [getFault |-> f.getFault, setFault |-> f.setFault, resp |-> resp]

\* the recipes of the external search service, as its search answers carry them
Catalog ==
    << Recipe(1, <<Ing(<<"c", "h", "i", "c", "k", "e", "n">>), Ing(<<"R", "i", "c", "e">>)>>, TRUE, 20, 2, 0),
       Recipe(2, <<>>, FALSE, Absent, 1, 2) >>

CatalogIds == 1..Len(Catalog)

\* the answers of the search endpoint: a failure, or up to MaxResults recipes
SearchAnswers ==
    {[kind |-> "exc", results |-> <<>>], [kind |-> "status", results |-> <<>>]}
    \cup {[kind |-> "ok", results |-> [k \in 1..Len(q) |-> Catalog[q[k]]]] :
            q \in DistinctSeqsUpTo(CatalogIds, MaxResults)}

\* the answers of the information endpoint for one recipe: a failure, the
\* full record, or a record with an ingredient entry that has no name
DetailAnswers(recipe_id) ==
    {[kind |-> "status", details |-> EmptyDetails],
     [kind |-> "ok", details |-> Details(<<Ing(<<"a", "l", "b", "a", "c", "o", "r", "e">>)>>, TRUE, 90)],
     [kind |-> "ok", details |-> Details(<<Ing(<<"a", "l", "b", "a", "c", "o", "r", "e">>), NamelessIng>>, TRUE, 90)]}

\* the taste of a recipe at the taste endpoint
TasteOf(recipe_id) ==
    IF recipe_id = 1
    THEN [d \in Elems(TASTE_DIMENSIONS) |-> IF d = "sweetness" THEN 100 ELSE 50]
    ELSE [d \in {"sweetness", "saltiness"} |-> IF d = "sweetness" THEN 100 ELSE 20]

TasteAnswers(recipe_id) ==
    {[kind |-> "exc", taste |-> NoTaste], [kind |-> "status", taste |-> NoTaste],
     [kind |-> "ok", taste |-> TasteOf(recipe_id)]}

\* one item of a classification answer; in_inventory as an LLM told the
\* inventory would flag it
Item(name, user_inventory) ==
    [valid |-> TRUE, ingredient |-> name, category |-> "Important",
     in_inventory |-> InList(Lower(name), clean_inventory(user_inventory)),
     confidence |-> 9]

\* the answers of the LLM to a classification prompt: a failure, a complete
\* list, a list whose first item has no "ingredient" key
ClassifyAnswers(names, user_inventory) ==
    LET full == [k \in 1..Len(names) |-> Item(names[k], user_inventory)]
    IN  {[kind |-> "exc", items |-> <<>>],
         [kind |-> "signature", items |-> <<>>],
         [kind |-> "garbage", items |-> <<>>],
         [kind |-> "list", items |-> full],
         [kind |-> "list",
          items |-> [k \in 1..Len(full) |-> [full[k] EXCEPT !.valid = (k # 1)]]]}

\* the answers of the LLM to a generation prompt: the failures, a recipe of
\* the first available ingredients, a recipe of an ingredient nobody has
GeneratorAnswers(available_ingredients, unique_id) ==
    LET ext == [k \in 1..Min(2, Len(available_ingredients)) |-> Ing(available_ingredients[k])]
    IN  {[kind |-> k, recipe |-> NoRecipe] : k \in {"exc", "nojson", "partial", "manual"}}
        \cup {[kind |-> "recipe", recipe |-> Recipe(unique_id, ext, TRUE, 30, Absent, Absent)],
              [kind |-> "recipe",
               recipe |-> Recipe(unique_id, <<Ing(<<"s", "a", "f", "f", "r", "o", "n">>)>>, TRUE, 30, Absent, Absent)]}

\* the answers of the LLM to a grouping prompt
GroupingAnswers(ingredients) ==
    {[kind |-> "exc", groups |-> <<>>], [kind |-> "garbage", groups |-> <<>>],
     [kind |-> "groups",
      groups |-> <<Take(ingredients, 2), <<ingredients[Len(ingredients)], <<"t", "r", "u", "f", "f", "l", "e">>>>>>]}

\* the answers of the LLM to a food-filter prompt
FilterAnswers(item_names) ==
    {[kind |-> "exc", names |-> <<>>], [kind |-> "garbage", names |-> <<>>],
     [kind |-> "notlist", names |-> <<>>],
     [kind |-> "list", names |-> <<>>],
     [kind |-> "list", names |-> Take(item_names, 1)]}

\* the values of the OPENAI_API_KEY environment variable: its default, and a
\* key of a real account
ApiKeys == {<<"d", "u", "m", "m", "y", "_", "k", "e", "y", "_", "f", "o", "r", "_", "t", "e", "s", "t", "i", "n", "g">>, <<"s", "k", "-", "l", "i", "v", "e">>}

\* the user preferences and time bounds of the requests
SweetVegan ==
    Prefs("none", TRUE, [d \in {"sweetness"} |-> 100], TRUE, TRUE, <<"v", "e", "g", "a", "n">>, TRUE,
          <<<<"n", "u", "t", "s">>, <<"d", "a", "i", "r", "y">>>>)

RequestOptions ==
    {[prefs |-> EmptyPrefs, max_ready_time |-> Absent],
     [prefs |-> SweetVegan, max_ready_time |-> 30]}

\* the inventory overrides of the requests; given = FALSE is None
Overrides ==
    {[given |-> FALSE, list |-> <<>>],
     [given |-> TRUE, list |-> <<>>],
     [given |-> TRUE, list |-> <<<<"c", "h", "i", "c", "k", "e", "n">>, <<"r", "i", "c", "e">>>>],
     [given |-> TRUE, list |-> <<<<"t", "u", "n", "a", " ", "i", "n", " ", "w", "a", "t", "e", "r", " ", "-", " ", "5", "o", "z">>>>],
     [given |-> TRUE,
      list |-> <<<<"c", "h", "i", "c", "k", "e", "n">>, <<"s", "a", "l", "t">>, <<"s", "u", "g", "a", "r">>, <<"f", "l", "o", "u", "r">>, <<"w", "a", "t", "e", "r">>>>]}

\* the contents of the inventory table
InventoryTables == {<<>>, <<<<"R", "i", "c", "e">>, <<"p", "a", "p", "e", "r", " ", "t", "o", "w", "e", "l">>>>}

-----------------------------------------------------------------------------
(* recipes.py:680-816: suggest_recipes_with_classification, one action per
   stage of the handler; pc forces the order of the stages *)

\* the values max_ingredients takes
MaxIngredientsOptions == {1, 20}

\* number=10 of the search (recipes.py:723)
SearchNumber == 10

NoRequest ==
    [available |-> <<>>, prefs |-> EmptyPrefs, max_ready_time |-> Absent,
     groups |-> <<>>, all_results |-> <<>>, max_groups |-> 0]

\* what is remembered of the running request once it is over: the inventory
\* it ran with, whether a cache fault was injected, the number of recipes the
\* search gave (Absent before the search is over), whether a stage attempted
\* an LLM call, of the group searches whether one failed (its request raised
\* or gave a non-200 status), whether one made after a failed one gave recipes, how
\* many were made and the ids they gave, the calls of the generator and what
\* they gave, and the batch as it went into the sort
NoTrace ==
    [available |-> <<>>, faults |-> FALSE, llm |-> FALSE, searchCount |-> Absent,
     groupFailed |-> FALSE, groupGaveAfterFailed |-> FALSE, groupsQueried |-> 0,
     groupIds |-> {},
     fallbackCalled |-> FALSE, fallbackNone |-> FALSE,
     topupCalled |-> FALSE, topupAdded |-> FALSE,
     batch |-> <<>>, topUsed |-> Absent, topMissed |-> Absent]

\* the Redis client raises in this stage call
Faulty(f) == f.getFault \/ f.setFault

\* a stage call is over: f is the fault mode of the Redis client in it, calls
\* the number of LLM requests it attempted
Noted(f, calls) == [trace EXCEPT !.faults = @ \/ Faulty(f), !.llm = @ \/ calls > 0]

Returned(list) == [kind |-> "list", list |-> list]
Raised == [kind |-> "raised", list |-> <<>>]
NoResult == [kind |-> "none", list |-> <<>>]

\* the handler returns or raises: the request is over
Finish(res) ==
    /\ result' = res
    /\ pc' = "idle"
    /\ req' = NoRequest
    /\ recipes' = <<>>
    /\ idx' = 0

\* a start that goes on to the search with whatever inventory it has
BeginWithoutCheck(available, opt, c, calls) ==
    /\ runs' = runs + 1
    /\ cache' = c
    /\ trace' = [NoTrace EXCEPT !.available = available, !.llm = calls > 0]
    /\ UNCHANGED <<OPENAI_API_KEY, st>>
    /\ pc' = "fetch"
    /\ req' = [NoRequest EXCEPT !.available = available, !.prefs = opt.prefs,
                                !.max_ready_time = opt.max_ready_time]
    /\ recipes' = <<>>
    /\ idx' = 0
    /\ result' = NoResult

\* recipes.py:713-715 and the hand-over to the search
Begin(available, opt, c, calls) ==
    /\ runs' = runs + 1
    /\ cache' = c
    /\ trace' = [NoTrace EXCEPT !.available = available, !.llm = calls > 0]
    /\ UNCHANGED <<OPENAI_API_KEY, st>>
    /\ IF available = <<>>
       THEN Finish(Returned(<<>>))
       ELSE /\ pc' = "fetch"
            /\ req' = [NoRequest EXCEPT !.available = available, !.prefs = opt.prefs,
                                        !.max_ready_time = opt.max_ready_time]
            /\ recipes' = <<>>
            /\ idx' = 0
            /\ result' = NoResult

\* recipes.py:702-706: a non-empty inventory_override is the inventory
StartOverride ==
    /\ pc = "idle" /\ runs < MaxRuns
    /\ \E o \in Overrides, opt \in RequestOptions :
        /\ o.given /\ o.list # <<>>
        /\ Begin(o.list, opt, cache, 0)

\* recipes.py:707-711: otherwise the inventory provider is asked
StartLive ==
    /\ pc = "idle" /\ runs < MaxRuns
    /\ \E o \in Overrides, opt \in RequestOptions, rows \in InventoryTables,
          dbFault \in BOOLEAN, use_ai_filtering \in BOOLEAN,
          max_ingredients \in MaxIngredientsOptions, f \in FaultModes :
        /\ ~(o.given /\ o.list # <<>>)
        /\ \E resp \in FilterAnswers([k \in 1..Len(rows) |-> Lower(rows[k])]) :
            \E got \in {get_inventory_ingredient_names(cache, OPENAI_API_KEY, rows, dbFault,
                            use_ai_filtering, max_ingredients, IO(f, resp))} :
                Begin(got.ret, opt, got.cache, got.calls)

\* recipes.py:728-743: the search is over with the list rs
AfterSearch(rs, f, calls) ==
    /\ trace' = [Noted(f, calls) EXCEPT !.searchCount = Len(rs)]
    /\ recipes' = rs
    /\ req' = [req EXCEPT !.groups = <<>>, !.all_results = <<>>]
    /\ pc' = IF rs = <<>> THEN "fallback" ELSE "enrich"
    /\ idx' = 1
    /\ UNCHANGED result

\* recipes.py:137-142: the direct search of a small ingredient list
FetchDirect ==
    /\ pc = "fetch" /\ Len(req.available) <= 4
    /\ \E f \in FaultModes, resp \in SearchAnswers :
        \E got \in {_fetch_recipes_for_ingredient_group(cache, req.available, SearchNumber,
                        req.max_ready_time, req.prefs, IO(f, resp))} :
            /\ cache' = got.cache
            /\ UNCHANGED <<OPENAI_API_KEY, runs, st>>
            /\ IF got.raised
               THEN Finish(Raised) /\ trace' = Noted(f, 0)
               ELSE AfterSearch(got.ret, f, 0)

\* recipes.py:100-112: the ingredient groups of a larger list
FetchGroups ==
    /\ pc = "fetch" /\ Len(req.available) > 4
    /\ \E f \in FaultModes, resp \in GroupingAnswers(req.available) :
        \E got \in {get_meaningful_ingredient_combinations(cache, OPENAI_API_KEY,
                        req.available, IO(f, resp))} :
        \E max_groups \in {Min(8, Len(got.ret))} :
            /\ cache' = got.cache
            /\ UNCHANGED <<OPENAI_API_KEY, runs, st>>
            /\ IF got.raised
               THEN Finish(Raised) /\ trace' = Noted(f, got.calls)
               ELSE IF max_groups = 0
               THEN AfterSearch(<<>>, f, got.calls)
               ELSE /\ req' = [req EXCEPT !.groups = Take(got.ret, max_groups),
                                          !.all_results = <<>>,
                                          !.max_groups = max_groups]
                    /\ pc' = "group"
                    /\ trace' = Noted(f, got.calls)
                    /\ UNCHANGED <<recipes, idx, result>>

\* recipes.py:126-129: the recipes of a group whose id is new
RECURSIVE MergeUnique(_, _)
MergeUnique(all_results, group_results) ==
    IF group_results = <<>> THEN all_results
    ELSE LET recipe == Head(group_results)
             known == \E k \in 1..Len(all_results) : all_results[k].id = recipe.id
         IN  MergeUnique(IF known THEN all_results ELSE Append(all_results, recipe),
                         Tail(group_results))

\* recipes.py:115-136: the search of the next group
FetchGroup ==
    /\ pc = "group"
    /\ \E f \in FaultModes, resp \in SearchAnswers :
        \E got \in {_fetch_recipes_for_ingredient_group(cache, Head(req.groups),
                        Max(3, SearchNumber \div req.max_groups),
                        req.max_ready_time, req.prefs, IO(f, resp))} :
        \E all_results \in {MergeUnique(req.all_results, got.ret)} :
        \E rest \in {Tail(req.groups)} :
        \E seen \in {[trace EXCEPT
                        !.groupFailed = @ \/ (got.calls = 1 /\ resp.kind # "ok"),
                        !.groupGaveAfterFailed =
                            @ \/ (trace.groupFailed /\ got.calls = 1 /\ got.ret # <<>>),
                        !.groupsQueried = @ + 1,
                        !.groupIds = @ \cup {got.ret[k].id : k \in 1..Len(got.ret)},
                        !.faults = @ \/ Faulty(f)]} :
            /\ cache' = got.cache
            /\ UNCHANGED <<OPENAI_API_KEY, runs, st>>
            /\ IF got.raised
               THEN Finish(Raised) /\ trace' = seen
               ELSE IF Len(all_results) >= SearchNumber \/ rest = <<>>
               THEN /\ trace' = [seen EXCEPT !.searchCount = Len(Take(all_results, SearchNumber))]
                    /\ recipes' = Take(all_results, SearchNumber)
                    /\ req' = [req EXCEPT !.groups = <<>>, !.all_results = <<>>]
                    /\ pc' = IF all_results = <<>> THEN "fallback" ELSE "enrich"
                    /\ idx' = 1
                    /\ UNCHANGED result
               ELSE /\ req' = [req EXCEPT !.groups = rest, !.all_results = all_results]
                    /\ trace' = seen
                    /\ UNCHANGED <<pc, recipes, idx, result>>

\* the id of the recipe the generator makes in this request
UniqueId == 900 + runs

\* recipes.py:729-741: no recipe was found, the generator is asked for one
Fallback ==
    /\ pc = "fallback"
    /\ \E f \in FaultModes, resp \in GeneratorAnswers(req.available, UniqueId) :
        \E got \in {generate_ai_recipe_suggestion(cache, OPENAI_API_KEY, req.available,
                        req.prefs, req.max_ready_time, UniqueId, IO(f, resp))} :
            /\ cache' = got.cache
            /\ UNCHANGED <<OPENAI_API_KEY, runs, st>>
            /\ trace' = [Noted(f, got.calls) EXCEPT !.fallbackCalled = TRUE,
                                         !.fallbackNone = ~got.raised /\ got.ret.isNone]
            /\ IF got.raised
               THEN Finish(Raised)
               ELSE IF got.ret.isNone
               THEN Finish(Returned(<<>>))
               ELSE /\ recipes' = <<got.ret.recipe>>
                    /\ pc' = "enrich"
                    /\ idx' = 1
                    /\ UNCHANGED <<req, result>>

\* recipe.update(details) (recipes.py:752)
Updated(recipe, details) ==
    [recipe EXCEPT !.extendedIngredients = details.extendedIngredients,
                   !.hasInstructions = @ \/ details.hasInstructions,
                   !.readyInMinutes = details.readyInMinutes]

\* the loop of recipes.py:746 goes on with the next recipe, or is over
NextOf(here, there) ==
    IF idx < Len(recipes) THEN pc' = here /\ idx' = idx + 1
    ELSE pc' = there /\ idx' = 1

\* recipes.py:746-759: the details and the taste profile of one recipe; the
\* Redis client is in one fault mode for the calls of the step
Enrich ==
    /\ pc = "enrich"
    /\ LET recipe == recipes[idx]
           wantDetails == ~recipe.hasInstructions /\ ~recipe.ai_generated
           wantTaste == ~recipe.hasTaste /\ ~recipe.ai_generated
       IN  \E f \in FaultModes, rd \in DetailAnswers(recipe.id),
              rt \in TasteAnswers(recipe.id) :
            \E d \in {fetch_recipe_details(cache, recipe.id, IO(f, rd))} :
            \E c1 \in {IF wantDetails THEN d.cache ELSE cache} :
            \E r1 \in {IF wantDetails /\ ~d.ret.isNone /\ ~d.ret.details.empty
                        THEN Updated(recipe, d.ret.details) ELSE recipe} :
            \E t \in {fetch_recipe_taste_profile(c1, recipe.id, IO(f, rt))} :
            LET raisedD == wantDetails /\ d.raised
                raisedT == wantTaste /\ t.raised
                c2 == IF wantTaste THEN t.cache ELSE c1
                r2 == IF wantTaste /\ DOMAIN t.ret # {}
                      THEN [r1 EXCEPT !.hasTaste = TRUE, !.taste_profile = t.ret] ELSE r1
            IN  /\ UNCHANGED <<OPENAI_API_KEY, runs, st>>
                /\ trace' = [trace EXCEPT
                                !.faults = @ \/ ((wantDetails \/ wantTaste) /\ Faulty(f))]
                /\ IF raisedD
                   THEN Finish(Raised) /\ cache' = cache
                   ELSE IF raisedT
                   THEN Finish(Raised) /\ cache' = c1
                   ELSE /\ cache' = c2
                        /\ recipes' = [recipes EXCEPT ![idx] = r2]
                        /\ NextOf("enrich", "classify")
                        /\ UNCHANGED <<req, result>>

\* recipes.py:762-777 for one recipe: its ingredient names, its classification
\* and the conversion; gives the Outcome of the classifier with the recipe as ret
Classified(c, apiKey, recipe, available_ingredients, io) ==
    LET named == IF recipe.hasIngredientsList THEN recipe
                 ELSE [recipe EXCEPT !.hasIngredientsList = TRUE,
                                     !.ingredients_list = IngredientNames(recipe)]
        got == classify_ingredients_with_ai(c, apiKey, named, available_ingredients,
                                            named.ingredients_list, io)
        with == [named EXCEPT !.classified_ingredients = got.ret]
    IN  [got EXCEPT !.ret = convert_classified_to_used_missed(with, available_ingredients)]

Classify ==
    /\ pc = "classify"
    /\ LET recipe == recipes[idx]
           names == IF recipe.hasIngredientsList THEN recipe.ingredients_list
                    ELSE IngredientNames(recipe)
       IN  \E f \in FaultModes, resp \in ClassifyAnswers(names, req.available) :
            \E got \in {Classified(cache, OPENAI_API_KEY, recipe, req.available,
                                    IO(f, resp))} :
                /\ cache' = got.cache
                /\ UNCHANGED <<OPENAI_API_KEY, runs, st>>
                /\ trace' = Noted(f, got.calls)
                /\ IF got.raised
                   THEN Finish(Raised)
                   ELSE /\ recipes' = [recipes EXCEPT ![idx] = got.ret]
                        /\ NextOf("classify", "score")
                        /\ UNCHANGED <<req, result>>

\* scored_recipes[0].get("fit_score", {}).get("percentage", 0) (recipes.py:786)
best_recipe_fit(scored_recipes) ==
    IF scored_recipes[1].fit_score = Absent THEN 0 ELSE scored_recipes[1].fit_score

\* recipes.py:785-788: an AI alternative is wanted
WantsAlternative(scored_recipes) ==
    /\ scored_recipes # <<>>
    /\ \A k \in 1..Len(scored_recipes) : ~scored_recipes[k].ai_generated
    /\ best_recipe_fit(scored_recipes) <= 10

\* recipes.py:779-816: scoring, sorting and the AI alternative
Score ==
    /\ pc = "score"
    /\ UNCHANGED <<OPENAI_API_KEY, runs, st>>
    /\ IF \E k \in 1..Len(recipes) : ScoreRaises(recipes[k])
       THEN Finish(Raised) /\ UNCHANGED <<cache, trace>>
       ELSE \E scored_recipes \in {score_and_sort_recipes(recipes, req.available,
                                                           req.prefs)} :
            \E sorted \in {[trace EXCEPT
                                !.batch = [k \in 1..Len(recipes) |-> recipes[k].id],
                                !.topUsed = scored_recipes[1].usedIngredientCount,
                                !.topMissed = scored_recipes[1].missedIngredientCount]} :
                IF ~WantsAlternative(scored_recipes)
                THEN /\ Finish(Returned(scored_recipes))
                     /\ trace' = sorted
                     /\ UNCHANGED cache
                ELSE \E f \in FaultModes, rg \in GeneratorAnswers(req.available, UniqueId) :
                      \E g \in {generate_ai_recipe_suggestion(cache, OPENAI_API_KEY,
                                    req.available, req.prefs, req.max_ready_time,
                                    UniqueId, IO(f, rg))} :
                      \E ai_recipe \in {[g.ret.recipe EXCEPT !.hasIngredientsList = FALSE]} :
                      \E tr \in {[sorted EXCEPT !.topupCalled = TRUE,
                                                !.faults = @ \/ Faulty(f),
                                                !.llm = @ \/ g.calls > 0]} :
                          IF g.raised
                          THEN Finish(Raised) /\ cache' = g.cache /\ trace' = tr
                          ELSE IF g.ret.isNone
                          THEN /\ Finish(Returned(scored_recipes))
                               /\ cache' = g.cache /\ trace' = tr
                          ELSE \E rc \in ClassifyAnswers(IngredientNames(ai_recipe),
                                                         req.available) :
                                \E cl \in {Classified(g.cache, OPENAI_API_KEY, ai_recipe,
                                                       req.available, IO(f, rc))} :
                                LET ai_recipe_scored ==
                                        score_and_sort_recipes(<<cl.ret>>, req.available,
                                                               req.prefs)[1]
                                IN  /\ cache' = cl.cache
                                    /\ IF cl.raised \/ ScoreRaises(cl.ret)
                                       THEN /\ Finish(Raised)
                                            /\ trace' = [tr EXCEPT !.llm = @ \/ cl.calls > 0]
                                       ELSE /\ Finish(Returned(<<ai_recipe_scored>>
                                                               \o scored_recipes))
                                            /\ trace' = [tr EXCEPT !.topupAdded = TRUE,
                                                                   !.llm = @ \/ cl.calls > 0]

NoStage == <<>>

Init ==
    /\ OPENAI_API_KEY \in ApiKeys
    /\ cache = EmptyCache
    /\ pc = "idle"
    /\ req = NoRequest
    /\ recipes = <<>>
    /\ idx = 0
    /\ result = NoResult
    /\ runs = 0
    /\ trace = NoTrace
    /\ st = NoStage

Next ==
    \/ StartOverride
    \/ StartLive
    \/ FetchDirect
    \/ FetchGroups
    \/ FetchGroup
    \/ Fallback
    \/ Enrich
    \/ Classify
    \/ Score

Spec == Init /\ [][Next]_vars

-----------------------------------------------------------------------------
(* The cached stage functions called directly, one after the other, on one
   cache: st is the list of the calls made, each with its arguments, what the
   outside world did to it, and what it gave *)

\* number of direct stage calls in one behaviour
MaxCalls == 2

\* the ingredient and inventory lists of the direct calls; the second is a
\* permutation of the first
StageLists ==
    {<<<<"c", "h", "i", "c", "k", "e", "n">>, <<"r", "i", "c", "e">>>>, <<<<"r", "i", "c", "e">>, <<"c", "h", "i", "c", "k", "e", "n">>>>, <<<<"t", "u", "n", "a", " ", "i", "n", " ", "w", "a", "t", "e", "r", " ", "-", " ", "5", "o", "z">>>>}

\* the options of the direct search calls: those of the requests, and more
\* dietary restrictions under one max_ready_time, two of them with the same
\* intolerances in another order
StageOptions ==
    RequestOptions \cup
    {[prefs |-> SweetVegan, max_ready_time |-> Absent],
     [prefs |-> [SweetVegan EXCEPT !.dietary_restrictions.intolerances =
                                        <<<<"d", "a", "i", "r", "y">>, <<"n", "u", "t", "s">>>>],
      max_ready_time |-> Absent],
     [prefs |-> Prefs("absent", FALSE, NoTaste, TRUE, TRUE, <<"v", "e", "g", "e", "t", "a", "r", "i", "a", "n">>, FALSE, <<>>),
      max_ready_time |-> Absent],
     [prefs |-> Prefs("absent", FALSE, NoTaste, TRUE, FALSE, <<>>, FALSE, <<>>),
      max_ready_time |-> Absent]}

\* the larger lists the combination generator is called with
StageGroupLists ==
    {<<<<"c", "h", "i", "c", "k", "e", "n">>, <<"s", "a", "l", "t">>, <<"s", "u", "g", "a", "r">>, <<"f", "l", "o", "u", "r">>, <<"w", "a", "t", "e", "r">>>>,
     <<<<"p", "a", "s", "t", "a">>, <<"c", "h", "e", "e", "s", "e">>, <<"c", "h", "i", "c", "k", "e", "n">>, <<"r", "i", "c", "e">>, <<"o", "n", "i", "o", "n">>>>,
     <<<<"p", "a", "s", "t", "a", " ", "s", "a", "u", "c", "e">>, <<"r", "i", "c", "e">>>>,
     <<<<"s", "a", "l", "t">>, <<"s", "u", "g", "a", "r">>, <<"f", "l", "o", "u", "r">>, <<"w", "a", "t", "e", "r">>, <<"y", "e", "a", "s", "t">>, <<"h", "o", "n", "e", "y">>, <<"c", "o", "c", "o", "a">>>>}

\* the item lists the food filter is called with
StageItemLists ==
    {<<>>, <<<<"r", "i", "c", "e">>, <<"p", "a", "p", "e", "r", " ", "t", "o", "w", "e", "l">>>>, <<<<"r", "i", "c", "e">>, <<"c", "h", "i", "c", "k", "e", "n">>, <<"s", "o", "a", "p">>>>}

\* a 200 answer of the information and taste endpoints can be the object {}
StageDetailAnswers(recipe_id) ==
    DetailAnswers(recipe_id) \cup {[kind |-> "ok", details |-> EmptyDetails]}

StageTasteAnswers(recipe_id) ==
    TasteAnswers(recipe_id) \cup {[kind |-> "ok", taste |-> NoTaste]}

\* a call as st keeps it.  hit: the call was answered from the cache; kept: the
\* cache holds, after the call, an entry under the call's key that a later
\* get_cache + `if cached:` accepts
Call(fn, args, f, out, hit, kept) ==
    [fn |-> fn, args |-> args, getFault |-> f.getFault, setFault |-> f.setFault,
     raised |-> out.raised, ret |-> out.ret, calls |-> out.calls,
     hit |-> hit, kept |-> kept]

Record(fn, args, f, out, hit, kept) ==
    /\ st' = Append(st, Call(fn, args, f, out, hit, kept))
    /\ cache' = out.cache
    /\ UNCHANGED <<OPENAI_API_KEY, pc, req, recipes, idx, result, runs, trace>>

\* the search of a list of at most 4 ingredients, which is what
\* fetch_recipes_from_spoonacular returns for it (recipes.py:137-142); the
\* endpoint answers with at most `number` recipes
StageSearch ==
    /\ Len(st) < MaxCalls
    /\ \E ingredients \in StageLists, opt \in StageOptions, f \in FaultModes,
          resp \in SearchAnswers, number \in {1, SearchNumber} :
        /\ Len(resp.results) <= number
        /\ \E out \in {_fetch_recipes_for_ingredient_group(cache, ingredients, number,
                        opt.max_ready_time, opt.prefs, IO(f, resp))} :
           \E key \in {SearchKey(ingredients, opt.max_ready_time, opt.prefs)} :
            Record("search", <<ingredients, opt, number>>, f, out,
                   ~f.getFault /\ HasKey(cache, "spoon:recipes", key) /\ Stored(cache, "spoon:recipes", key) # <<>>,
                   HasKey(out.cache, "spoon:recipes", key) /\ Stored(out.cache, "spoon:recipes", key) # <<>>)

StageDetails ==
    /\ Len(st) < MaxCalls
    /\ \E recipe_id \in CatalogIds, f \in FaultModes :
        \E resp \in StageDetailAnswers(recipe_id) :
        \E out \in {fetch_recipe_details(cache, recipe_id, IO(f, resp))} :
            Record("details", <<recipe_id>>, f, out,
                   ~f.getFault /\ HasKey(cache, "spoon:recipe_details", recipe_id) /\ ~Stored(cache, "spoon:recipe_details", recipe_id).empty,
                   HasKey(out.cache, "spoon:recipe_details", recipe_id) /\ ~Stored(out.cache, "spoon:recipe_details", recipe_id).empty)

StageTaste ==
    /\ Len(st) < MaxCalls
    /\ \E recipe_id \in CatalogIds, f \in FaultModes :
        \E resp \in StageTasteAnswers(recipe_id) :
        \E out \in {fetch_recipe_taste_profile(cache, recipe_id, IO(f, resp))} :
            Record("taste", <<recipe_id>>, f, out,
                   ~f.getFault /\ HasKey(cache, "spoon:recipe_taste", recipe_id) /\ DOMAIN Stored(cache, "spoon:recipe_taste", recipe_id) # {},
                   HasKey(out.cache, "spoon:recipe_taste", recipe_id) /\ DOMAIN Stored(out.cache, "spoon:recipe_taste", recipe_id) # {})

\* the LLM may also answer with the pairs of neighbours of the list
StageCombinations ==
    /\ Len(st) < MaxCalls
    /\ \E ingredients \in StageGroupLists, f \in FaultModes :
        \E resp \in GroupingAnswers(ingredients) \cup
                    {[kind |-> "groups",
                      groups |-> [k \in 1..(Len(ingredients) - 1) |->
                                    <<ingredients[k], ingredients[k + 1]>>]]} :
        \E out \in {get_meaningful_ingredient_combinations(cache, OPENAI_API_KEY,
                        ingredients, IO(f, resp))} :
        \E key \in {Join(<<",">>, SortedStr(ingredients))} :
            Record("combinations", <<ingredients>>, f, out,
                   ~f.getFault /\ HasKey(cache, "ingredient_combinations", key) /\ Stored(cache, "ingredient_combinations", key) # <<>>,
                   HasKey(out.cache, "ingredient_combinations", key) /\ Stored(out.cache, "ingredient_combinations", key) # <<>>)

StageClassify ==
    /\ Len(st) < MaxCalls
    /\ \E k \in CatalogIds, user_inventory \in StageLists, f \in FaultModes :
        \E recipe \in {Catalog[k]} :
        \E names \in {IngredientNames(recipe)} :
        \E resp \in ClassifyAnswers(names, user_inventory) :
        \E out \in {classify_ingredients_with_ai(cache, OPENAI_API_KEY, recipe,
                        user_inventory, names, IO(f, resp))} :
        \E key \in {ClassificationKey(recipe, user_inventory)} :
            Record("classify", <<recipe.id, user_inventory>>, f, out,
                   ~f.getFault /\ HasKey(cache, "ai:ingredient_classification", key) /\ Stored(cache, "ai:ingredient_classification", key) # <<>>,
                   HasKey(out.cache, "ai:ingredient_classification", key) /\ Stored(out.cache, "ai:ingredient_classification", key) # <<>>)

StageGenerate ==
    /\ Len(st) < MaxCalls
    /\ \E available \in StageLists, opt \in RequestOptions, f \in FaultModes :
        \E resp \in GeneratorAnswers(available, 900 + Len(st)) :
        \E out \in {generate_ai_recipe_suggestion(cache, OPENAI_API_KEY, available,
                        opt.prefs, opt.max_ready_time, 900 + Len(st), IO(f, resp))} :
            Record("generate", <<available, opt>>, f, out,
                   ~AIUnavailable(OPENAI_API_KEY) /\ ~f.getFault /\ HasKey(cache, "ai:recipe", GeneratorKey(available, opt.max_ready_time, opt.prefs)),
                   HasKey(out.cache, "ai:recipe", GeneratorKey(available, opt.max_ready_time, opt.prefs)))

\* the LLM may also answer with the first two names; kept with the call are
\* the answer the LLM has for it and what the call gives on an empty cache
StageFilter ==
    /\ Len(st) < MaxCalls
    /\ \E items \in StageItemLists, max_ingredients \in MaxIngredientsOptions,
          f \in FaultModes :
        \E resp \in FilterAnswers(items) \cup {[kind |-> "list", names |-> Take(items, 2)]} :
        \E out \in {filter_valid_food_ingredients(cache, OPENAI_API_KEY, items,
                        max_ingredients, IO(f, resp))} :
        \E fresh \in {filter_valid_food_ingredients(EmptyCache, OPENAI_API_KEY, items,
                        max_ingredients, IO(f, resp))} :
        \E key \in {Join(<<",">>, SortedStr(items))} :
            Record("filter", <<items, max_ingredients, resp, fresh.ret>>, f, out,
                   ~f.getFault /\ HasKey(cache, "filtered_ingredients", key) /\ Stored(cache, "filtered_ingredients", key) # <<>>,
                   HasKey(out.cache, "filtered_ingredients", key) /\ Stored(out.cache, "filtered_ingredients", key) # <<>>)

NextStage ==
    \/ StageSearch
    \/ StageDetails
    \/ StageTaste
    \/ StageCombinations
    \/ StageClassify
    \/ StageGenerate
    \/ StageFilter

SpecStage == Init /\ [][NextStage]_vars

-----------------------------------------------------------------------------
(* The functions without state, called once on an input of a small set; st
   keeps the call: its arguments and what it gave *)

\* recipes.py:12-35: re.sub of
\*   \s+-\s+\d+(?:\s*(?:oz|OZ|g|ml|ML|pack|Pack|lb|LB))?\s*$
\* by "": the text is cut at the leftmost place from which the rest is
\* blanks, a hyphen, blanks, digits and then, between optional blanks, one of
\* the units as they are spelled in the pattern, or nothing
clean_ingredient_name(ingredient_name) ==
    LET units == {<<"o", "z">>, <<"O", "Z">>, <<"g">>, <<"m", "l">>, <<"M", "L">>, <<"p", "a", "c", "k">>, <<"P", "a", "c", "k">>, <<"l", "b">>, <<"L", "B">>}
        digits == {"0", "1", "2", "3", "4", "5", "6", "7", "8", "9"}
        Blank(t, a, b) == \A k \in a..b : t[k] = " "
        Matches(t) ==
            \E a \in 1..Len(t), b \in 1..Len(t), c \in 1..Len(t) :
                /\ Blank(t, 1, a)
                /\ a + 1 < b /\ t[a + 1] = "-" /\ Blank(t, a + 2, b)
                /\ b < c /\ \A k \in (b + 1)..c : t[k] \in digits
                /\ Strip(SubSeq(t, c + 1, Len(t))) \in units \cup {<<>>}
        starts == {k \in 1..Len(ingredient_name) :
                      Matches(SubSeq(ingredient_name, k, Len(ingredient_name)))}
    IN  IF starts = {} THEN ingredient_name
        ELSE SubSeq(ingredient_name, 1,
                    (CHOOSE k \in starts : \A m \in starts : k <= m) - 1)

\* recipes.py:625-631 and 658-663: the fit_score of one recipe; a missing
\* count reads as 0, the percentage is kept in tenths, round(x, 1) rounding a
\* tie to the even tenth
fit_score(recipe) ==
    LET have == IF recipe.usedIngredientCount = Absent THEN 0
                ELSE recipe.usedIngredientCount
        need_to_buy == IF recipe.missedIngredientCount = Absent THEN 0
                       ELSE recipe.missedIngredientCount
        total_ingredients == have + need_to_buy
        q == (1000 * have) \div Max(1, total_ingredients)
        r == (1000 * have) % Max(1, total_ingredients)
        tenths == IF 2 * r > total_ingredients THEN q + 1
                  ELSE IF 2 * r = total_ingredients /\ q % 2 = 1 THEN q + 1
                  ELSE q
    IN  [percentage |-> IF total_ingredients > 0 THEN tenths ELSE 0,
         have |-> have, need_to_buy |-> need_to_buy, total |-> total_ingredients]

\* a formatter that leaves the recipes in the order given
FormatInGivenOrder(rs) ==
    [k \in 1..Len(rs) |-> [id |-> rs[k].id, fit_score |-> fit_score(rs[k])]]

\* recipes.py:611-677: of the formatted recipe the id and the fit_score are
\* kept; sorted(..., reverse=True) by the percentage is stable, so a recipe
\* comes behind those of a higher percentage and those of the same percentage
\* that were before it
format_recipe_output(rs) ==
    LET formatted_recipes ==
            [k \in 1..Len(rs) |-> [id |-> rs[k].id, fit_score |-> fit_score(rs[k])]]
        pct(k) == formatted_recipes[k].fit_score.percentage
        place(k) ==
            1 + Cardinality({j \in 1..Len(rs) :
                                pct(j) > pct(k) \/ (pct(j) = pct(k) /\ j < k)})
    IN  [p \in 1..Len(rs) |-> formatted_recipes[CHOOSE k \in 1..Len(rs) : place(k) = p]]

\* main.py:228-271: what the /ai/suggest-recipes endpoint answers with when
\* suggest_recipes_with_classification gave `rs`; the simplified form keeps
\* the id and the fit_score of each recipe, in the same order
ai_suggest_recipes(rs) == IF rs # <<>> THEN format_recipe_output(rs) ELSE <<>>

\* one call of score_recipe, and of its three parts, on a recipe, with the
\* preferences of a user, under one list of available ingredients and under
\* another
PureScore ==
    /\ st = <<>>
    /\ \E ext \in {<<>>, <<Ing(<<"c", "h", "i", "c", "k", "e", "n">>), Ing(<<"R", "i", "c", "e">>)>>,
                   <<Ing(<<"r", "i", "c", "e">>), Ing(<<"R", "i", "c", "e">>), Ing(<<"c", "h", "i", "c", "k", "e", "n">>), Ing(<<"s", "a", "l", "t">>)>>},
          minutes \in {Absent, 20, 45, 90},
          taste \in {NoTaste, [d \in {"sweetness", "saltiness"} |-> IF d = "sweetness" THEN 100 ELSE 20],
                     [d \in {"sweetness"} |-> 250], [d \in {"bitterness"} |-> 40]},
          effort \in {"absent", "none", "easy", "moderate", "hard"},
          liked \in {NoTaste, [d \in {"sweetness"} |-> 0],
                     [d \in {"sweetness", "saltiness"} |-> IF d = "sweetness" THEN 100 ELSE 50],
                     [d \in {"sourness"} |-> 10]},
          available \in {<<>>, <<<<"c", "h", "i", "c", "k", "e", "n">>>>, <<<<"s", "a", "l", "t">>, <<"r", "i", "c", "e">>>>,
                         <<<<"c", "h", "i", "c", "k", "e", "n">>, <<"r", "i", "c", "e">>>>},
          other \in {<<>>, <<<<"c", "h", "i", "c", "k", "e", "n">>>>, <<<<"s", "a", "l", "t">>, <<"r", "i", "c", "e">>>>,
                     <<<<"c", "h", "i", "c", "k", "e", "n">>, <<"r", "i", "c", "e">>>>} :
        \E recipe \in {[Recipe(1, ext, TRUE, minutes, Absent, Absent) EXCEPT
                            !.hasTaste = taste # NoTaste, !.taste_profile = taste]} :
        \E prefs \in {Prefs(effort, liked # NoTaste, liked, FALSE, FALSE, <<>>, FALSE, <<>>)} :
            st' = <<[fn |-> "score", recipe |-> recipe, prefs |-> prefs,
                     available |-> available, other |-> other,
                     inventory |-> inventory_score(recipe, available),
                     effort |-> effort_score(recipe, prefs),
                     flavor |-> flavor_score(recipe, prefs),
                     score |-> score_recipe(recipe, available, prefs),
                     inventoryOther |-> inventory_score(recipe, other),
                     scoreOther |-> score_recipe(recipe, other, prefs)]>>
    /\ UNCHANGED <<OPENAI_API_KEY, cache, pc, req, recipes, idx, result, runs, trace>>

\* one call of the heuristic classifier
PureClassify ==
    /\ st = <<>>
    /\ \E ingredient_list \in {<<>>, <<<<"t", "u", "n", "a">>>>, <<<<"c", "h", "i", "c", "k", "e", "n">>, <<"R", "i", "c", "e">>>>,
                               <<<<" ", "A", "l", "b", "a", "c", "o", "r", "e", " ">>, <<"s", "a", "l", "t">>, <<"s", "u", "g", "a", "r">>, <<"f", "l", "o", "u", "r">>>>},
          user_inventory \in {<<>>, <<<<"c", "h", "i", "c", "k", "e", "n">>, <<"r", "i", "c", "e">>>>, <<<<"t", "u", "n", "a", " ", "i", "n", " ", "w", "a", "t", "e", "r", " ", "-", " ", "5", "o", "z">>>>} :
        st' = <<[fn |-> "classify", ingredient_list |-> ingredient_list,
                 user_inventory |-> user_inventory,
                 ret |-> _create_simple_ingredient_classification(ingredient_list,
                                                                   user_inventory)]>>
    /\ UNCHANGED <<OPENAI_API_KEY, cache, pc, req, recipes, idx, result, runs, trace>>

\* one call of the normalizer on base + " - " + number + unit
PureClean ==
    /\ st = <<>>
    /\ \E base \in {<<>>, <<"B", "e", "e", "f", " ", "S", "t", "e", "w">>, <<"R", "e", "a", "d", "y", "-", "t", "o", "-", "e", "a", "t", " ", "S", "o", "u", "p">>, <<"T", "u", "n", "a", " ", "-", " ", "i", "n", " ", "w", "a", "t", "e", "r">>},
          number \in {<<"5">>, <<"2", "0">>},
          unit \in {<<>>, <<"o", "z">>, <<"O", "Z">>, <<"O", "z">>, <<"g">>, <<"G">>, <<"m", "l">>, <<"M", "L">>, <<"m", "L">>,
                    <<"p", "a", "c", "k">>, <<"P", "a", "c", "k">>, <<"P", "A", "C", "K">>, <<" ", "P", "a", "c", "k">>, <<"l", "b">>, <<"L", "B">>, <<"L", "b">>} :
        st' = <<[fn |-> "clean", base |-> base, number |-> number, unit |-> unit,
                 ret |-> clean_ingredient_name(base \o <<" ", "-", " ">> \o number \o unit)]>>
    /\ UNCHANGED <<OPENAI_API_KEY, cache, pc, req, recipes, idx, result, runs, trace>>

\* one call of the heuristic food filter
PureFilter ==
    /\ st = <<>>
    /\ \E item_names \in {<<>>, <<<<"r", "i", "c", "e">>, <<"p", "a", "p", "e", "r", " ", "t", "o", "w", "e", "l">>, <<"c", "h", "i", "c", "k", "e", "n">>>>,
                          <<<<"R", "i", "c", "e">>, <<"s", "a", "l", "t">>>>, <<<<"t", "u", "n", "a", " ", "i", "n", " ", "w", "a", "t", "e", "r", " ", "-", " ", "5", "o", "z">>, <<"r", "i", "c", "e">>>>,
                          <<<<"r", "i", "c", "e", " ", "-", " ", "2", "l", "b">>, <<"r", "i", "c", "e", " ", "-", " ", "5", "l", "b">>, <<"s", "o", "a", "p">>, <<"f", "l", "o", "u", "r">>>>},
          max_ingredients \in {1, 2, 20} :
        st' = <<[fn |-> "filter", item_names |-> item_names,
                 max_ingredients |-> max_ingredients,
                 ret |-> _heuristic_food_filtering(item_names, max_ingredients)]>>
    /\ UNCHANGED <<OPENAI_API_KEY, cache, pc, req, recipes, idx, result, runs, trace>>

\* one call of the formatter on up to three recipes
PureFormat ==
    /\ st = <<>>
    /\ \E n \in 0..3 :
        \E counts \in [1..n -> {Absent, 0, 1, 3} \X {Absent, 0, 1}] :
            \E rs \in {[k \in 1..n |->
                          Recipe(k, <<>>, TRUE, Absent, counts[k][1], counts[k][2])]} :
                st' = <<[fn |-> "format", recipes |-> rs, ret |-> format_recipe_output(rs)]>>
    /\ UNCHANGED <<OPENAI_API_KEY, cache, pc, req, recipes, idx, result, runs, trace>>

\* one call of the heuristic combination generator
PureCombine ==
    /\ st = <<>>
    /\ \E ingredients \in {<<>>, <<<<"c", "h", "i", "c", "k", "e", "n">>>>, <<<<"p", "a", "s", "t", "a", " ", "s", "a", "u", "c", "e">>, <<"r", "i", "c", "e">>>>,
                            <<<<"p", "a", "s", "t", "a">>, <<"c", "h", "e", "e", "s", "e">>, <<"c", "h", "i", "c", "k", "e", "n">>, <<"r", "i", "c", "e">>, <<"o", "n", "i", "o", "n">>>>,
                            <<<<"s", "a", "l", "t">>, <<"s", "u", "g", "a", "r">>, <<"f", "l", "o", "u", "r">>, <<"w", "a", "t", "e", "r">>, <<"y", "e", "a", "s", "t">>,
                              <<"h", "o", "n", "e", "y">>, <<"c", "o", "c", "o", "a">>>>} :
        st' = <<[fn |-> "combine", ingredients |-> ingredients,
                 ret |-> _create_culinary_ingredient_combinations(ingredients)]>>
    /\ UNCHANGED <<OPENAI_API_KEY, cache, pc, req, recipes, idx, result, runs, trace>>

NextPure ==
    \/ PureScore
    \/ PureClassify
    \/ PureClean
    \/ PureFilter
    \/ PureFormat
    \/ PureCombine

SpecPure == Init /\ [][NextPure]_vars

-----------------------------------------------------------------------------
(* Properties of the pipeline (Spec) and of the stage calls (SpecStage) *)

\* a suggest request is over
Done == pc = "idle" /\ result.kind # "none"

\* the recipes of the result, none when the request raised
Listed == IF result.kind = "list" THEN result.list ELSE <<>>

\* C1: suggest never raises, whatever the search, detail and taste endpoints
\* and the LLM answer; here for the requests whose Redis client works
C1_NeverRaises == ~(result.kind = "raised" /\ ~trace.faults)

\* C2: a cache-layer fault never fails the caller: no direct call of a cached
\* stage function raises (the Redis client is the only thing that can make
\* one raise)
C2_CacheFaultTolerated == \A k \in 1..Len(st) : ~st[k].raised

\* the ingredient fit of the top-scoring recipe is above 10 percent
TopFitAboveTen ==
    /\ trace.topUsed # Absent /\ trace.topMissed # Absent
    /\ trace.topUsed + trace.topMissed > 0
    /\ 100 * trace.topUsed > 10 * (trace.topUsed + trace.topMissed)

\* C3: when the search gave recipes and the top-scoring one fits above 10
\* percent, the generator is not invoked after scoring and no recipe of the
\* result is AI-generated
C3_TopUpOnlyOnLowFit ==
    (Done /\ ~trace.faults /\ trace.searchCount # Absent /\ trace.searchCount > 0
          /\ TopFitAboveTen)
        => /\ ~trace.topupCalled
           /\ \A k \in 1..Len(Listed) : ~Listed[k].ai_generated

\* two successive direct calls of one stage function with the same arguments,
\* the Redis client working in both
SameCallTwice ==
    /\ Len(st) = 2
    /\ st[1].fn = st[2].fn
    /\ st[1].args = st[2].args
    /\ \A k \in 1..2 : ~st[k].getFault /\ ~st[k].setFault

\* C4 as stated: two successive identical calls issue exactly one external
\* call in total and return identical results
C4_Idempotent ==
    SameCallTwice => st[1].calls + st[2].calls = 1 /\ st[1].ret = st[2].ret

\* C4 amended: when the first call left a non-empty entry in the cache, the
\* second call is answered from it: it issues no external call and returns the
\* identical result, and the first call issued one call (none only for the
\* combinations, whose heuristic result is cached too)
C4_IdempotentWhenKept ==
    (SameCallTwice /\ st[1].kept)
        => /\ st[2].hit /\ st[2].calls = 0
           /\ st[2].ret = st[1].ret
           /\ st[1].calls <= 1
           /\ (st[1].fn # "combinations" => st[1].calls = 1)

C4_Witness ==
    /\ SameCallTwice /\ st[1].kept
    /\ st[1].calls = 1 /\ st[2].calls = 0
    /\ st[1].fn = "taste"

\* C5 as stated: after a search without recipes, and with the Redis client
\* working, the result is one generated recipe, and the empty list only
\* without an AI credential
C5_FallbackUnlessNoCredential ==
    (Done /\ ~trace.faults /\ result.kind = "list" /\ trace.searchCount = 0)
        => IF AIUnavailable(OPENAI_API_KEY) THEN result.list = <<>>
           ELSE Len(result.list) = 1 /\ result.list[1].ai_generated

\* C5 amended: after a search without recipes the generator is invoked; the
\* result is the one recipe it gives, marked ai_generated, and the empty list
\* when it gives None, which it always does without an AI credential
C5_FallbackUnlessNone ==
    (Done /\ result.kind = "list" /\ trace.searchCount = 0)
        => /\ trace.fallbackCalled
           /\ IF trace.fallbackNone THEN result.list = <<>>
              ELSE Len(result.list) = 1 /\ result.list[1].ai_generated
           /\ (AIUnavailable(OPENAI_API_KEY) => trace.fallbackNone)

C5_Witness ==
    /\ Done /\ result.kind = "list" /\ trace.searchCount = 0
    /\ ~AIUnavailable(OPENAI_API_KEY)
    /\ Len(result.list) = 1 /\ result.list[1].ai_generated

\* C6: without an AI credential and with a search hit, the list a request
\* whose Redis client works returns is not empty, and each of its recipes has
\* a score, the heuristic classification of its ingredient list, and counts
\* derived from that classification
C6_HeuristicEndToEnd ==
    (Done /\ AIUnavailable(OPENAI_API_KEY) /\ ~trace.faults /\ result.kind = "list"
          /\ trace.searchCount # Absent /\ trace.searchCount > 0)
        => /\ result.list # <<>>
           /\ \A k \in 1..Len(Listed) :
                LET r == Listed[k]
                IN  /\ r.score # Absent
                    /\ r.classified_ingredients =
                         _create_simple_ingredient_classification(r.ingredients_list,
                                                                  trace.available)
                    /\ r.usedIngredientCount =
                         Len(NamesWithFlag(r.classified_ingredients, TRUE))
                    /\ r.missedIngredientCount =
                         Len(NamesWithFlag(r.classified_ingredients, FALSE))

\* C7: once the recipes are classified (the Redis client working), each
\* carries one classification entry for each name of its ingredient list, in
\* the order of the list
C7_OneEntryPerIngredient ==
    (pc = "score" /\ ~trace.faults)
        => \A k \in 1..Len(recipes) :
            /\ Len(recipes[k].classified_ingredients) = Len(recipes[k].ingredients_list)
            /\ \A i \in 1..Len(recipes[k].classified_ingredients) :
                Lower(recipes[k].classified_ingredients[i].ingredient)
                    = recipes[k].ingredients_list[i]

\* C8: once the recipes are converted (the Redis client working), the used
\* and missed counts of each add up to the number of its extendedIngredients
C8_CountsAddUp ==
    (pc = "score" /\ ~trace.faults)
        => \A k \in 1..Len(recipes) :
            recipes[k].usedIngredientCount + recipes[k].missedIngredientCount
                = Len(recipes[k].extendedIngredients)

\* the place of a recipe id in the batch that went into the sort
PlaceInBatch(id) == CHOOSE k \in 1..Len(trace.batch) : trace.batch[k] = id

\* the sorted part of the result: all of it but an added AI alternative
SortedPart == IF trace.topupAdded THEN Tail(Listed) ELSE Listed

\* C9: the returned list is in non-increasing order of score, recipes of equal
\* score in the order of the batch, but for an added AI alternative, which is
\* the first element whatever its score
C9_SortedStable ==
    (Done /\ result.kind = "list" /\ trace.batch # <<>>)
        => /\ Len(SortedPart) = Len(trace.batch)
           /\ \A i, j \in 1..Len(SortedPart) :
                i < j => \/ SortedPart[i].score > SortedPart[j].score
                         \/ /\ SortedPart[i].score = SortedPart[j].score
                            /\ PlaceInBatch(SortedPart[i].id) < PlaceInBatch(SortedPart[j].id)
           /\ (trace.topupAdded =>
                /\ result.list[1].ai_generated
                /\ \A k \in 1..Len(SortedPart) : ~SortedPart[k].ai_generated)

\* a result of three: an AI alternative that scores below the recipe behind
\* it, then two recipes of equal score that the sort left in batch order
C9_Witness ==
    /\ Done /\ result.kind = "list" /\ trace.topupAdded
    /\ Len(result.list) = 3
    /\ result.list[1].score < result.list[2].score
    /\ result.list[2].score = result.list[3].score
    /\ result.list[2].id > result.list[3].id

\* C10: a direct classification call answered from the cache returns what an
\* earlier call for the same recipe and the same inventory set returned
C10_HitOnlyForSameInventory ==
    \A j \in 1..Len(st) :
        (st[j].fn = "classify" /\ st[j].hit)
            => \E i \in 1..(j - 1) :
                /\ st[i].fn = "classify"
                /\ st[i].args[1] = st[j].args[1]
                /\ Elems(st[i].args[2]) = Elems(st[j].args[2])
                /\ st[j].ret = st[i].ret

\* the second call is answered from the entry of the first, made for the same
\* inventory in another order
C10_Witness ==
    /\ Len(st) = 2
    /\ st[1].fn = "classify" /\ st[2].fn = "classify"
    /\ st[2].hit
    /\ st[1].args[2] # st[2].args[2]

\* the dietary restrictions of a direct search call: none, or the dict given
RestrictionsOf(call) ==
    IF DietTruthy(call.args[2].prefs) THEN call.args[2].prefs.dietary_restrictions
    ELSE NoDiet

C12_NoLLMCallWithPlaceholder ==
    Contains(OPENAI_API_KEY, <<"d", "u", "m", "m", "y">>)
        => /\ ~trace.llm
           /\ (trace.fallbackCalled => trace.fallbackNone)
           /\ ~trace.topupAdded
           /\ \A k \in 1..Len(Listed) : ~Listed[k].ai_generated

\* a request under the placeholder key that went through the combination
\* generator, the classifier and the generator, and returned recipes
C12_Witness ==
    /\ Contains(OPENAI_API_KEY, <<"d", "u", "m", "m", "y">>)
    /\ Done /\ Listed # <<>>
    /\ trace.groupsQueried > 0 /\ trace.topupCalled

Called(fn) == Len(st) = 1 /\ st[1].fn = fn

\* C14: the effort sub-score of score is the neutral 0.5 when the preferences
\* express no effort tolerance (the field absent or null), else 1.0 for the
\* bucket of the recipe, 0.6 for an adjacent bucket and 0.1 otherwise
C14_EffortScore ==
    Called("score") =>
        LET tolerance == st[1].prefs.effort_tolerance
            bucket == map_minutes_to_effort(st[1].recipe.readyInMinutes)
        IN  st[1].effort =
                IF tolerance \in {"absent", "none"} THEN ScoreScale \div 2
                ELSE IF tolerance = bucket THEN ScoreScale
                ELSE IF Abs(EffortIndex(tolerance) - EffortIndex(bucket)) = 1
                     THEN (6 * ScoreScale) \div 10
                ELSE ScoreScale \div 10

\* the number of the recipe's ingredient names (lower-cased, each counted
\* once) that a list of available ingredients holds
PresentCount(recipe, available) ==
    Cardinality({n \in {Lower(recipe.extendedIngredients[k].name) :
                            k \in 1..Len(recipe.extendedIngredients)} :
                    InList(n, available)})

\* C15: for one recipe and one user, the inventory sub-score and the combined
\* score under a list that holds no fewer of the recipe's ingredients are no
\* lower
C15_ScoreMonotone ==
    (Called("score")
        /\ PresentCount(st[1].recipe, st[1].available)
            <= PresentCount(st[1].recipe, st[1].other))
        => /\ st[1].inventory <= st[1].inventoryOther
           /\ st[1].score <= st[1].scoreOther

\* more of the recipe's ingredients are available, and both scores are higher
C15_Witness ==
    /\ Called("score")
    /\ PresentCount(st[1].recipe, st[1].available) = 1
    /\ PresentCount(st[1].recipe, st[1].other) = 2
    /\ st[1].inventory < st[1].inventoryOther
    /\ st[1].score < st[1].scoreOther

\* C16: whatever the taste values of the two profiles, the flavor sub-score
\* lies in [0,1] and the combined score in [0,1]; the flavor sub-score is the
\* neutral 0.5 when no dimension is in both profiles
C16_FlavorInRange ==
    Called("score") =>
        /\ st[1].flavor >= 0 /\ st[1].flavor <= ScoreScale
        /\ st[1].score >= 0 /\ st[1].score <= 10 * ScoreScale
        /\ (DOMAIN st[1].recipe.taste_profile \cap DOMAIN st[1].prefs.taste_profile = {}
                => st[1].flavor = ScoreScale \div 2)

\* C17: the heuristic classification of a list of ingredient names has one
\* entry for each name, the i-th carrying the i-th name as it was given
C17_HeuristicComplete ==
    Called("classify") =>
        /\ Len(st[1].ret) = Len(st[1].ingredient_list)
        /\ \A i \in 1..Len(st[1].ret) : st[1].ret[i].ingredient = st[1].ingredient_list[i]

\* four names, one of them with blanks around it and in upper case, matched
\* against an inventory through a keyword: four entries, the names unchanged
C17_Witness ==
    /\ Called("classify")
    /\ Len(st[1].ingredient_list) = 4 /\ Len(st[1].ret) = 4
    /\ st[1].ret[1].ingredient = <<" ", "A", "l", "b", "a", "c", "o", "r", "e", " ">>
    /\ st[1].ret[1].in_inventory /\ ~st[1].ret[2].in_inventory

\* C18: the normalizer gives the base back for base + " - " + number + unit,
\* the unit being one of oz, g, ml, pack, lb in any letter case, or nothing
C18_SuffixStripped ==
    (Called("clean")
        /\ Lower(st[1].unit) \in {<<>>, <<"o", "z">>, <<"g">>, <<"m", "l">>,
                                  <<"p", "a", "c", "k">>, <<"l", "b">>})
        => st[1].ret = st[1].base

\* is sub a subsequence of s: its elements are elements of s in the order of s
RECURSIVE IsSubsequence(_, _)
IsSubsequence(sub, s) ==
    IF sub = <<>> THEN TRUE
    ELSE IF s = <<>> THEN FALSE
    ELSE IF Head(sub) = Head(s) THEN IsSubsequence(Tail(sub), Tail(s))
    ELSE IsSubsequence(sub, Tail(s))

\* C19: the heuristic food filter only removes items: its output is made of
\* input names, unchanged and in input order, at most max_ingredients of them,
\* none with a denylist keyword
C19_FilterOnlyRemoves ==
    Called("filter") =>
        /\ IsSubsequence(st[1].ret, st[1].item_names)
        /\ Len(st[1].ret) <= st[1].max_ingredients
        /\ \A k \in 1..Len(st[1].ret) : ~ContainsAny(Lower(st[1].ret[k]), non_food_keywords)

\* C20: the formatter gives one recipe for each it was given, each with the
\* counts of its recipe (a missing count as 0), their sum as total, the
\* percentage 100 x have / total to the nearest tenth (0 for total 0), in
\* non-increasing order of percentage
C20_FormatFitScore ==
    Called("format") =>
        LET given == st[1].recipes
            out == st[1].ret
            Count(n) == IF n = Absent THEN 0 ELSE n
        IN  /\ Len(out) = Len(given)
            /\ \A k \in 1..Len(given) : \E p \in 1..Len(out) : out[p].id = given[k].id
            /\ \A p \in 1..Len(out) :
                LET fit == out[p].fit_score
                    from == given[out[p].id]
                IN  /\ fit.have = Count(from.usedIngredientCount)
                    /\ fit.need_to_buy = Count(from.missedIngredientCount)
                    /\ fit.total = fit.have + fit.need_to_buy
                    /\ IF fit.total = 0 THEN fit.percentage = 0
                       ELSE 2 * Abs(fit.percentage * fit.total - 1000 * fit.have)
                                <= fit.total
            /\ \A p \in 1..(Len(out) - 1) :
                out[p].fit_score.percentage >= out[p + 1].fit_score.percentage

\* three recipes given in rising order of fit, one of them 3 of 4 (75.0), one
\* without counts: they come back in falling order
C20_Witness ==
    /\ Called("format")
    /\ Len(st[1].ret) = 3
    /\ st[1].ret[1].id = 3 /\ st[1].ret[3].id = 1
    /\ st[1].ret[1].fit_score = [percentage |-> 750, have |-> 3, need_to_buy |-> 1, total |-> 4]
    /\ st[1].ret[2].fit_score.percentage = 500
    /\ st[1].ret[3].fit_score = [percentage |-> 0, have |-> 0, need_to_buy |-> 0, total |-> 0]

\* the request started without a usable inventory override and the inventory
\* provider gave no ingredient
NoIngredients == runs = 1 /\ trace.available = <<>>

\* the request is over with [] and no search, details, taste, classifier,
\* grouping or generator call was made: none of their cache entries exists
EndedBeforeSearch ==
    /\ pc = "idle" /\ result = Returned(<<>>)
    /\ trace.searchCount = Absent /\ trace.groupsQueried = 0
    /\ ~trace.fallbackCalled /\ ~trace.topupCalled
    /\ \A p \in CachePrefixes \ {"filtered_ingredients"} : cache[p] = NoEntries

\* C21 as stated: when the inventory provider gives no ingredient, suggest
\* returns [] and the request made no search, no enrichment and no LLM call
\* and wrote no cache entry
C21_NothingIssued ==
    NoIngredients => EndedBeforeSearch /\ ~trace.llm /\ cache = EmptyCache

\* C21, amended: when the inventory provider gives no ingredient, suggest
\* returns [] without a search, an enrichment, a classifier, a grouping or a
\* generator call and without a cache entry of theirs; the food filter inside
\* the provider may have asked the LLM and stored its (empty) answer
C21_NothingIssuedAfterProvider == NoIngredients => EndedBeforeSearch

\* the food filter asked the LLM, which answered with the empty list: the
\* answer is in the cache and the request is over with []
C21_Witness ==
    /\ NoIngredients /\ result = Returned(<<>>)
    /\ trace.llm /\ cache # EmptyCache

\* C22: every ingredient given to the heuristic combination generator is in
\* one of the groups it returns
C22_EveryIngredientGrouped ==
    Called("combine") =>
        \A k \in 1..Len(st[1].ingredients) :
            \E g \in 1..Len(st[1].ret) : InList(st[1].ingredients[k], st[1].ret[g])

\* C23: the combination generator returns at most
\* min(8, max(4, ingredient_count // 2)) groups, whether the LLM or the
\* heuristic made them and the full-inventory group included
C23_GroupsCapped ==
    \A k \in 1..Len(st) :
        (st[k].fn = "combinations" /\ ~st[k].raised)
            => Len(st[k].ret) <= max_combinations(st[k].args[1])

\* C24: every group the combination generator returns, whether the LLM or the
\* heuristic made it and the full-inventory group included, has between 2 and
\* 6 names, none of them twice
C24_GroupsWellFormed ==
    \A k \in 1..Len(st) :
        (st[k].fn = "combinations" /\ ~st[k].raised) =>
            \A g \in 1..Len(st[k].ret) :
                LET group == st[k].ret[g]
                IN  /\ Len(group) >= 2 /\ Len(group) <= 6
                    /\ Cardinality(Elems(group)) = Len(group)

\* C25: a fetch returns at most `number` recipes, no two of them with the
\* same id, whatever earlier fetches left in the cache (here for the direct
\* path, lists of at most 4 ingredients)
C25_AtMostCountUnique ==
    \A k \in 1..Len(st) :
        (st[k].fn = "search" /\ ~st[k].raised) =>
            /\ Len(st[k].ret) <= st[k].args[3]
            /\ \A i, j \in 1..Len(st[k].ret) :
                    st[k].ret[i].id = st[k].ret[j].id => i = j

\* C26: the result of the food filter, of the LLM or of the heuristic, is in
\* the cache after the call, and the next call with the same names is
\* answered from the cache without an LLM call (calls without a fault of the
\* cache, results that are not empty)
C26_FilterResultCached ==
    \A k \in 1..Len(st) :
        (st[k].fn = "filter" /\ ~st[k].raised /\ ~st[k].setFault /\ st[k].ret # <<>>) =>
            /\ st[k].kept
            /\ (k < Len(st) /\ st[k + 1].fn = "filter" /\ ~st[k + 1].getFault
                    /\ st[k + 1].args[1] = st[k].args[1])
                => st[k + 1].hit /\ st[k + 1].calls = 0

\* C29: a call of the food filter that follows a call with the same names and
\* a smaller max_ingredients, the LLM having the same answer for both, gives
\* no fewer names than it gives on an empty cache
C29_FilterIgnoresEarlierMax ==
    \A i, j \in 1..Len(st) :
        (/\ i < j /\ st[i].fn = "filter" /\ st[j].fn = "filter"
         /\ ~st[i].raised /\ ~st[j].raised
         /\ st[i].args[1] = st[j].args[1] /\ st[i].args[3] = st[j].args[3]
         /\ st[i].args[2] < st[j].args[2])
            => Len(st[j].ret) >= Len(st[j].args[4])

\* two lists with the same members in any order
Permuted(a, b) == Len(a) = Len(b) /\ Elems(a) = Elems(b)

\* two calls of one cached stage whose ingredient list, inventory list and
\* intolerance list are permutations of each other, all else being equal
SameUpToOrder(a, b) ==
    /\ a.fn = b.fn
    /\ a.fn \in {"search", "generate", "classify"}
    /\ IF a.fn = "classify"
       THEN a.args[1] = b.args[1] /\ Permuted(a.args[2], b.args[2])
       ELSE LET WithoutList(opt) ==
                    [opt EXCEPT !.prefs.dietary_restrictions.intolerances = <<>>]
                Intolerances(opt) == opt.prefs.dietary_restrictions.intolerances
            IN  /\ Permuted(a.args[1], b.args[1])
                /\ WithoutList(a.args[2]) = WithoutList(b.args[2])
                /\ Permuted(Intolerances(a.args[2]), Intolerances(b.args[2]))

\* C27: a call of a cached stage that follows a call with the same inputs in
\* another order, whose result is in the cache, is answered from the cache
C27_KeyIgnoresOrder ==
    \A k \in 1..(Len(st) - 1) :
        (SameUpToOrder(st[k], st[k + 1]) /\ st[k].kept /\ ~st[k + 1].getFault)
            => st[k + 1].hit

\* C28: every recipe the generator returns, parsed from an answer, built by
\* hand or taken from the cache, has ai_generated set, no missed ingredient,
\* as many used ingredients as it has ingredients, and the neutral taste profile
C28_GeneratedRecipeShape ==
    \A k \in 1..Len(st) :
        (st[k].fn = "generate" /\ ~st[k].raised /\ ~st[k].ret.isNone) =>
            LET recipe == st[k].ret.recipe
            IN  /\ recipe.ai_generated
                /\ recipe.missedIngredientCount = 0
                /\ recipe.usedIngredientCount = Len(recipe.extendedIngredients)
                /\ recipe.hasTaste /\ recipe.taste_profile = NeutralTaste

\* C30: the endpoint answers with the recipes of
\* suggest_recipes_with_classification in the order it gave them
C30_EndpointKeepsOrder ==
    (pc = "idle" /\ result.kind = "list") =>
        LET answer == ai_suggest_recipes(result.list)
        IN  /\ Len(answer) = Len(result.list)
            /\ \A k \in 1..Len(answer) : answer[k].id = result.list[k].id
====
